---- MODULE Spec2Model ----
(***************************************************************************)
(* State-machine model of the ENS registration bot (src/unnamed/part_000,  *)
(* the bot's index.ts): the five in-memory correlation stores, the slash   *)
(* commands that start a saga, the two onInteractionResponse handlers      *)
(* (form and transaction) and the setTimeout continuation of the           *)
(* commit-reveal delay.                                                    *)
(*                                                                         *)
(* Strings that the code inspects (correlation keys) are sequences of      *)
(* one-character strings, so that startsWith / replace are computed.       *)
(* One handler run is one action (single-threaded event loop).             *)
(* handler.sendMessage calls that stand outside a try block or inside a    *)
(* catch block are taken to deliver; a failure inside a try block is the   *)
(* input `fail`.                                                           *)
(***************************************************************************)
EXTENDS Integers, Sequences, FiniteSets, TLC

VARIABLES
    pendingCommitments,          \* Map<string, CommitmentState>
    pendingBridges,              \* Map<string, BridgeState>
    pendingWalletSelections,     \* Map<string, PendingWalletSelection>
    pendingTestSelections,       \* Map<string, PendingTestSelection>
    pendingSubdomainAssignments, \* Map<string, SubdomainAssignmentState>
    timers,                      \* setTimeout callbacks not yet run, by timer id
    nextTimer,                   \* next id setTimeout hands out
    nextSecret,                  \* source of fresh random secrets
    now,                         \* the clock, in seconds (Date.now() / 1000)
    last,                        \* the handler run just completed and its input
    out                          \* what that run sent, in order

vars == <<pendingCommitments, pendingBridges, pendingWalletSelections,
          pendingTestSelections, pendingSubdomainAssignments, timers,
          nextTimer, nextSecret, now, last, out>>

stores == <<pendingCommitments, pendingBridges, pendingWalletSelections,
            pendingTestSelections, pendingSubdomainAssignments>>

----------------------------------------------------------------------------
(* Bounds of the model *)

MaxTime == 60       \* the clock stops here (seconds)
TickSeconds == 30   \* granularity of the clock
MaxSecrets == 2     \* commitments generated in one run
MaxTimers == 2      \* delay timers scheduled in one run
MaxForms == 1       \* wallet selections pending at one time
MaxWallets == 2     \* wallets in a list given to the funding analysis
MaxCost == 40       \* largest registration cost (0.001 ETH)

----------------------------------------------------------------------------
(* Strings as character sequences *)

Digits == <<"0", "1", "2", "3", "4", "5", "6", "7", "8", "9">>

RECURSIVE NumStr(_)
NumStr(n) ==
    IF n < 10 THEN <<Digits[n + 1]>>
    ELSE NumStr(n \div 10) \o <<Digits[(n % 10) + 1]>>

Dash == <<"-">>

StartsWith(s, p) ==
    /\ Len(s) >= Len(p)
    /\ SubSeq(s, 1, Len(p)) = p

\* positions at which pat occurs in s
Occurrences(s, pat) ==
    {i \in 1..(Len(s) - Len(pat) + 1) : SubSeq(s, i, i + Len(pat) - 1) = pat}

Min(S) == CHOOSE x \in S : \A y \in S : x <= y

\* C20 mutant: the last occurrence is replaced
ReplaceLast(s, pat, rep) ==
    IF Occurrences(s, pat) = {} THEN s
    ELSE LET i == CHOOSE x \in Occurrences(s, pat) :
                      \A y \in Occurrences(s, pat) : y <= x
         IN  SubSeq(s, 1, i - 1) \o rep \o SubSeq(s, i + Len(pat), Len(s))

\* String.prototype.replace with a string pattern: first occurrence only
Replace(s, pat, rep) ==
    IF Occurrences(s, pat) = {} THEN s
    ELSE LET i == Min(Occurrences(s, pat))
         IN  SubSeq(s, 1, i - 1) \o rep \o SubSeq(s, i + Len(pat), Len(s))

PCommit == <<"c", "o", "m", "m", "i", "t", "-">>
PRegister == <<"r", "e", "g", "i", "s", "t", "e", "r", "-">>
PTestCommit == <<"t", "e", "s", "t", "c", "o", "m", "m", "i", "t", "-">>
PTestRegister ==
    <<"t", "e", "s", "t", "_", "r", "e", "g", "i", "s", "t", "e", "r", "-">>
PTestTransfer ==
    <<"t", "e", "s", "t", "t", "r", "a", "n", "s", "f", "e", "r", "-">>
PBridgeEoa == <<"b", "r", "i", "d", "g", "e", "-", "e", "o", "a", "-">>
PWalletSelect ==
    <<"w", "a", "l", "l", "e", "t", "-", "s", "e", "l", "e", "c", "t", "-">>
PTestWalletPick ==
    <<"t", "e", "s", "t", "-", "w", "a", "l", "l", "e", "t", "-",
      "p", "i", "c", "k", "-">>
PSubdomain == <<"s", "u", "b", "d", "o", "m", "a", "i", "n", "-">>
PTestTx == <<"t", "e", "s", "t", "-", "t", "x", "-">>

DotEth == <<".", "e", "t", "h">>

----------------------------------------------------------------------------
(* Program constants *)

MIN_COMMITMENT_AGE == 60      \* REGISTRATION.MIN_COMMITMENT_AGE, seconds
MIN_LENGTH == 3               \* ENS_VALIDATION.MIN_LENGTH
SECONDS_PER_YEAR == 31557600  \* TIME.SECONDS_PER_YEAR
MAX_YEARS == 10

----------------------------------------------------------------------------
(* Inputs of the environment *)

Channels == {<<"1">>, <<"2">>}
Users == {<<"a">>, <<"b">>}
DomainArgs == {<<"x", "y", "z">>, <<"x", "y">>}
YearArgs == {<<"2">>, <<"0">>, <<"z">>}
TxHashes == {"0xh1", "0xh2"}
NoTxHash == ""

\* args of a slash command: none, a domain, or a domain and a duration
CommandArgs ==
    {<<>>} \cup {<<d>> : d \in DomainArgs}
           \cup {<<d, y>> : d \in DomainArgs, y \in YearArgs}

\* getSmartAccountFromUserId
SmartAccountOf(userId) == IF userId = <<"a">> THEN "0xSa" ELSE "0xSb"

----------------------------------------------------------------------------
(* Values sent by a handler *)

NoData ==
    [fn |-> "", commitment |-> <<>>, label |-> <<>>, owner |-> "",
     duration |-> 0, secret |-> 0, recipient |-> "", amount |-> 0,
     outputAmount |-> 0]

Message(channelId, text) ==
    [type |-> "message", channelId |-> channelId, text |-> text, id |-> <<>>,
     chainId |-> "", signerWallet |-> "", data |-> NoData,
     options |-> <<>>, recipient |-> <<>>]

TransactionRequest(channelId, id, chainId, data, signerWallet, recipient) ==
    [type |-> "transaction", channelId |-> channelId, text |-> "", id |-> id,
     chainId |-> chainId, signerWallet |-> signerWallet, data |-> data,
     options |-> <<>>, recipient |-> recipient]

FormRequest(channelId, id, options, recipient) ==
    [type |-> "form", channelId |-> channelId, text |-> "", id |-> id,
     chainId |-> "", signerWallet |-> "", data |-> NoData,
     options |-> options, recipient |-> recipient]

\* Map.prototype.set / delete / has
MapSet(m, k, v) == [x \in DOMAIN m \cup {k} |-> IF x = k THEN v ELSE m[x]]
MapDelete(m, k) == [x \in DOMAIN m \ {k} |-> m[x]]
MapHas(m, k) == k \in DOMAIN m
EmptyMap == <<>>

----------------------------------------------------------------------------
(* The program state as one value, so that a handler is a function on it *)

Cur ==
    [pendingCommitments |-> pendingCommitments,
     pendingBridges |-> pendingBridges,
     pendingWalletSelections |-> pendingWalletSelections,
     pendingTestSelections |-> pendingTestSelections,
     pendingSubdomainAssignments |-> pendingSubdomainAssignments,
     timers |-> timers,
     nextTimer |-> nextTimer,
     nextSecret |-> nextSecret,
     out |-> <<>>]

\* handler.sendMessage
SendMessage(st, channelId, text) ==
    [st EXCEPT !.out = Append(@, Message(channelId, text))]

\* handler.sendInteractionRequest
SendInteractionRequest(st, req) ==
    [st EXCEPT !.out = Append(@, req)]

----------------------------------------------------------------------------
(* Argument parsing and validation *)

IsDigit(c) == \E i \in 1..10 : Digits[i] = c
DigitValue(c) == (CHOOSE i \in 1..10 : Digits[i] = c) - 1

RECURSIVE DigitsValue(_)
DigitsValue(s) ==
    IF s = <<>> THEN 0
    ELSE 10 * DigitsValue(SubSeq(s, 1, Len(s) - 1)) + DigitValue(s[Len(s)])

\* length of the longest prefix of decimal digits
RECURSIVE DigitPrefixLen(_)
DigitPrefixLen(s) ==
    IF s = <<>> \/ ~IsDigit(Head(s)) THEN 0 ELSE 1 + DigitPrefixLen(Tail(s))

\* parseInt on an unsigned argument: NaN when it starts with no digit
ParseInt(s) ==
    IF DigitPrefixLen(s) = 0 THEN [nan |-> TRUE, value |-> 0]
    ELSE [nan |-> FALSE, value |-> DigitsValue(SubSeq(s, 1, DigitPrefixLen(s)))]

\* const yearsArg = args[1] ? parseInt(args[1]) : 1
YearsArg(args) ==
    IF Len(args) >= 2 /\ args[2] # <<>> THEN ParseInt(args[2])
    ELSE [nan |-> FALSE, value |-> 1]

\* C21 mutant: only the upper end of the range is checked
InvalidYearsUpperOnly(y) == y.nan \/ y.value > MAX_YEARS

\* isNaN(yearsArg) || yearsArg < 1 || yearsArg > 10
InvalidYears(y) == y.nan \/ y.value < 1 \/ y.value > MAX_YEARS

\* normalizeENSName on a lower-case label without suffix
NormalizeENSName(domainName) ==
    [normalized |-> domainName, valid |-> Len(domainName) >= MIN_LENGTH]

----------------------------------------------------------------------------
(* Registration parameters *)

\* generateRegistrationParams: a fresh random secret, duration in seconds
GenerateRegistrationParams(label, owner, years, secret) ==
    [label |-> label, owner |-> owner,
     duration |-> years * SECONDS_PER_YEAR, secret |-> secret]

\* makeCommitment: the controller's hash of the parameters
MakeCommitment(params) ==
    <<params.label, params.owner, params.duration, params.secret>>

CommitmentState(userId, channelId, label, commitment, params, timestamp) ==
    [userId |-> userId, channelId |-> channelId, domain |-> label \o DotEth,
     label |-> label, commitment |-> commitment, secret |-> params.secret,
     owner |-> params.owner, duration |-> params.duration,
     timestamp |-> timestamp, commitTxHash |-> NoTxHash]

CommitData(commitment) ==
    [NoData EXCEPT !.fn = "commit", !.commitment = commitment]

\* C37 mutant: the key leaves the user out
CommitmentIdNoUser(prefix, channelId, userId, label) ==
    prefix \o channelId \o Dash \o label

CommitmentId(prefix, channelId, userId, label) ==
    prefix \o channelId \o Dash \o userId \o Dash \o label

DateNow == now * 1000

----------------------------------------------------------------------------
(* /register and /test_register *)

MAINNET_CHAIN == "1"
SEPOLIA_CHAIN == "11155111"
BASE_CHAIN == "8453"

\* The body of both commands; they differ in the key prefix and the chain.
\* avail: checkAvailability's answer ("yes", "no", "throw"); fail: the awaited
\* call of the try block that throws ("none", "rpc": cost, account or
\* commitment lookup; "message": the confirmation message; "request": the
\* interaction request; "final": the closing message).
StartRegistration(st, prefix, chainId, channelId, userId, args, avail, fail) ==
    IF args = <<>> THEN SendMessage(st, channelId, "usage")
    ELSE IF InvalidYears(YearsArg(args))
    THEN SendMessage(st, channelId, "invalid_duration")
    ELSE IF ~NormalizeENSName(args[1]).valid
    THEN SendMessage(st, channelId, "invalid_domain")
    ELSE
    LET normalized == NormalizeENSName(args[1]).normalized
        s0 == SendMessage(st, channelId, "checking_availability")
        params == GenerateRegistrationParams(normalized, SmartAccountOf(userId),
                      YearsArg(args).value, st.nextSecret)
        commitmentHash == MakeCommitment(params)
        commitmentId == CommitmentId(prefix, channelId, userId, normalized)
        s1 == [s0 EXCEPT
                 !.nextSecret = @ + 1,
                 !.pendingCommitments = MapSet(@, commitmentId,
                     CommitmentState(userId, channelId, normalized,
                                     commitmentHash, params, DateNow))]
        s2 == SendMessage(s1, channelId, "available_starting")
        s3 == SendInteractionRequest(s2,
                  TransactionRequest(channelId, commitmentId, chainId,
                      CommitData(commitmentHash), "", userId))
    IN  IF avail = "throw" THEN SendMessage(s0, channelId, "error_initiating")
        ELSE IF avail = "no" THEN SendMessage(s0, channelId, "not_available")
        ELSE IF fail = "rpc" THEN SendMessage(s0, channelId, "error_initiating")
        ELSE IF fail = "message"
        THEN SendMessage(s1, channelId, "error_initiating")
        ELSE IF fail = "request"
        THEN SendMessage(s2, channelId, "error_initiating")
        ELSE IF fail = "final"
        THEN SendMessage(s3, channelId, "error_initiating")
        ELSE SendMessage(s3, channelId, "request_sent")

RegisterCommand(st, channelId, userId, args, avail, fail) ==
    StartRegistration(st, PCommit, MAINNET_CHAIN, channelId, userId, args,
                      avail, fail)

TestRegisterCommand(st, channelId, userId, args, avail, fail) ==
    StartRegistration(st, PTestCommit, SEPOLIA_CHAIN, channelId, userId, args,
                      avail, fail)

----------------------------------------------------------------------------
(* The delay timer of the commit-reveal protocol *)

\* C24 mutant: the callback is never scheduled
SetTimeoutDropped(st, closure, delay) == st

\* setTimeout(callback, delay): the callback with what its closure holds
SetTimeout(st, closure, delay) ==
    [st EXCEPT
       !.timers = MapSet(@, st.nextTimer,
                     [closure |-> closure, setAt |-> DateNow, delay |-> delay]),
       !.nextTimer = @ + 1]


\* C1 mutant: the continuation is scheduled with no delay
RevealDelayNone == 0 * 1000

\* REGISTRATION.MIN_COMMITMENT_AGE * 1000
RevealDelay == MIN_COMMITMENT_AGE * 1000

\* the event loop runs a callback no earlier than its delay after setTimeout
TimerDue(t) == DateNow >= t.setAt + t.delay

\* C5 mutant: the reveal is encoded with the minimum duration
RegisterDataMinimumDuration(commitment) ==
    [NoData EXCEPT !.fn = "register", !.label = commitment.label,
                   !.owner = commitment.owner,
                   !.duration = SECONDS_PER_YEAR,
                   !.secret = commitment.secret]

\* encodeFunctionData({functionName: "register", args: [...]})
RegisterData(commitment) ==
    [NoData EXCEPT !.fn = "register", !.label = commitment.label,
                   !.owner = commitment.owner,
                   !.duration = commitment.duration,
                   !.secret = commitment.secret]

\* requestId.replace("commit-", "register-") and its test twin
RegisterRequestId(requestId, test) ==
    IF test THEN Replace(requestId, PTestCommit, PTestRegister)
    ELSE Replace(requestId, PCommit, PRegister)

\* requestId.replace("register-", "commit-") and its test twin
CommitRequestId(requestId, test) ==
    IF test THEN Replace(requestId, PTestRegister, PTestCommit)
    ELSE Replace(requestId, PRegister, PCommit)

\* C4 mutant: the catch block reports the failure and keeps the record
ContinuationFailedKeeps(st, c) ==
    SendMessage(st, c.channelId, "error_preparing_registration")

\* the catch block of the continuation
ContinuationFailed(st, c) ==
    [SendMessage(st, c.channelId, "error_preparing_registration") EXCEPT
       !.pendingCommitments = MapDelete(@, c.requestId)]

\* The continuation passed to setTimeout. c is its closure: the event's
\* requestId, channelId and userId and the commitment object read at the
\* confirmation. fail: "none", "cost" (calculateRegistrationCost throws),
\* "message", "request".
RevealContinuation(st, c, fail) ==
    LET s1 == SendMessage(st, c.channelId, "delay_passed")
        s2 == SendInteractionRequest(s1,
                  TransactionRequest(c.channelId,
                      RegisterRequestId(c.requestId, c.test),
                      IF c.test THEN SEPOLIA_CHAIN ELSE MAINNET_CHAIN,
                      RegisterData(c.commitment), "", c.userId))
    IN  IF fail \in {"cost", "message"} THEN ContinuationFailed(st, c)
        ELSE IF fail = "request" THEN ContinuationFailed(s1, c)
        ELSE s2

----------------------------------------------------------------------------
(* onInteractionResponse, transaction responses *)

\* what the continuation keeps of the confirmation: the event's requestId,
\* channelId, userId and txHash and the commitment object it read
Closure(event, test, commitment) ==
    [requestId |-> event.requestId, channelId |-> event.channelId,
     userId |-> event.userId, txHash |-> event.txHash, test |-> test,
     commitment |-> [label |-> commitment.label,
                     domain |-> commitment.domain,
                     owner |-> commitment.owner,
                     duration |-> commitment.duration,
                     secret |-> commitment.secret]]

\* C6 mutant: the confirmation also draws a new secret for the record
CommitConfirmedRegenerates(st, event, test) ==
    LET requestId == event.requestId
        commitment == [st.pendingCommitments[requestId] EXCEPT
                         !.commitTxHash = event.txHash,
                         !.secret = st.nextSecret]
        s1 == [st EXCEPT !.pendingCommitments =
                             MapSet(@, requestId, commitment),
                         !.nextSecret = @ + 1]
        s2 == SendMessage(s1, event.channelId, "commit_confirmed")
    IN  SetTimeout(s2, Closure(event, test, commitment), RevealDelay)

\* the commit transaction went through: keep its hash, start the delay
CommitConfirmed(st, event, test) ==
    LET requestId == event.requestId
        commitment == [st.pendingCommitments[requestId] EXCEPT
                         !.commitTxHash = event.txHash]
        s1 == [st EXCEPT !.pendingCommitments =
                             MapSet(@, requestId, commitment)]
        s2 == SendMessage(s1, event.channelId, "commit_confirmed")
    IN  SetTimeout(s2, Closure(event, test, commitment), RevealDelay)

\* C2 mutant: a rejected commit is reported and the record kept
CommitNotConfirmedKeeps(st, event) ==
    SendMessage(st, event.channelId, "commit_cancelled")

\* the commit transaction was rejected or failed
CommitNotConfirmed(st, event) ==
    [SendMessage(st, event.channelId, "commit_cancelled") EXCEPT
       !.pendingCommitments = MapDelete(@, event.requestId)]

\* the commit- and testcommit- branches
CommitResponse(st, event, test) ==
    IF ~MapHas(st.pendingCommitments, event.requestId) THEN st
    ELSE IF event.txHash # NoTxHash THEN CommitConfirmed(st, event, test)
    ELSE CommitNotConfirmed(st, event)

\* C13 mutant: a confirmed registration empties the commitment store
RegistrationConfirmedClears(st, event, commitRequestId) ==
    [SendMessage(st, event.channelId, "registration_successful") EXCEPT
       !.pendingCommitments = EmptyMap]

\* the registration transaction went through: the saga is complete
RegistrationConfirmed(st, event, commitRequestId) ==
    [SendMessage(st, event.channelId, "registration_successful") EXCEPT
       !.pendingCommitments = MapDelete(@, commitRequestId)]

\* C3 mutant: a rejected registration also drops the record
RegistrationNotConfirmedDeletes(st, event, commitRequestId) ==
    [SendMessage(st, event.channelId, "registration_not_confirmed") EXCEPT
       !.pendingCommitments = MapDelete(@, commitRequestId)]

\* the registration transaction was rejected or failed
RegistrationNotConfirmed(st, event, commitRequestId) ==
    SendMessage(st, event.channelId, "registration_not_confirmed")

\* the register- and test_register- branches
RegisterResponse(st, event, test) ==
    LET commitRequestId == CommitRequestId(event.requestId, test) IN
    IF ~MapHas(st.pendingCommitments, commitRequestId) THEN st
    ELSE IF event.txHash # NoTxHash
    THEN RegistrationConfirmed(st, event, commitRequestId)
    ELSE RegistrationNotConfirmed(st, event, commitRequestId)

\* the testtransfer- branch
TestTransferResponse(st, event) ==
    IF event.txHash # NoTxHash
    THEN SendMessage(st, event.channelId, "transfer_successful")
    ELSE SendMessage(st, event.channelId, "transfer_cancelled")

\* the subdomain- branch
SubdomainResponse(st, event) ==
    LET requestId == event.requestId IN
    IF ~MapHas(st.pendingSubdomainAssignments, requestId) THEN st
    ELSE IF event.txHash = NoTxHash
    THEN [SendMessage(st, event.channelId, "subdomain_cancelled") EXCEPT
            !.pendingSubdomainAssignments = MapDelete(@, requestId)]
    ELSE [SendMessage(st, event.channelId, "subdomain_complete") EXCEPT
            !.pendingSubdomainAssignments = MapDelete(@, requestId)]

\* C32 mutant: the handler does not look at the kind of the response
OnTransactionResponseAnyCase(st, event) ==
    IF StartsWith(event.requestId, PTestCommit)
    THEN CommitResponse(st, event, TRUE)
    ELSE IF StartsWith(event.requestId, PTestRegister)
    THEN RegisterResponse(st, event, TRUE)
    ELSE IF StartsWith(event.requestId, PTestTransfer)
    THEN TestTransferResponse(st, event)
    ELSE IF StartsWith(event.requestId, PCommit)
    THEN CommitResponse(st, event, FALSE)
    ELSE IF StartsWith(event.requestId, PRegister)
    THEN RegisterResponse(st, event, FALSE)
    ELSE IF StartsWith(event.requestId, PSubdomain)
    THEN SubdomainResponse(st, event)
    ELSE st

\* the second onInteractionResponse handler
OnTransactionResponse(st, event) ==
    IF event.case # "transaction" THEN st
    ELSE IF StartsWith(event.requestId, PTestCommit)
    THEN CommitResponse(st, event, TRUE)
    ELSE IF StartsWith(event.requestId, PTestRegister)
    THEN RegisterResponse(st, event, TRUE)
    ELSE IF StartsWith(event.requestId, PTestTransfer)
    THEN TestTransferResponse(st, event)
    ELSE IF StartsWith(event.requestId, PCommit)
    THEN CommitResponse(st, event, FALSE)
    ELSE IF StartsWith(event.requestId, PRegister)
    THEN RegisterResponse(st, event, FALSE)
    ELSE IF StartsWith(event.requestId, PSubdomain)
    THEN SubdomainResponse(st, event)
    ELSE st

----------------------------------------------------------------------------
(* Funding analysis of one wallet (utils/wallets) *)

GAS_BUFFER_PERCENTAGE == 10   \* BRIDGE_CONFIG.GAS_BUFFER_PERCENTAGE
ESTIMATED_GAS == 10           \* parseEther("0.01"), in 0.001 ETH

\* C18 mutant: the buffer is taken on the registration cost alone
CalculateRequiredBuffersCost(registrationCostWei, gasBufferPercentage) ==
    LET buffer == (registrationCostWei * gasBufferPercentage) \div 100
    IN  registrationCostWei + ESTIMATED_GAS + buffer

\* calculateRequiredMainnetETH, amounts in 0.001 ETH
CalculateRequiredMainnetETH(registrationCostWei, gasBufferPercentage) ==
    LET total == registrationCostWei + ESTIMATED_GAS
        buffer == (total * gasBufferPercentage) \div 100
    IN  total + buffer

NoPath == "null"

\* C27 mutant: the bridge fee is left out of what Base must hold
GetWalletCapabilityIgnoresFee(w, requiredMainnetAmount, bridgeFee) ==
    LET canA == w.balances.mainnet >= requiredMainnetAmount
        canB == w.isEOA /\ w.balances.base >= requiredMainnetAmount
    IN  [canUsePathA |-> canA, canUsePathB |-> canB, canUsePathC |-> FALSE,
         recommendedPath |-> IF canA THEN "A" ELSE IF canB THEN "B" ELSE NoPath]

\* getWalletCapability
GetWalletCapability(w, requiredMainnetAmount, bridgeFee) ==
    LET canA == w.balances.mainnet >= requiredMainnetAmount
        canB == w.isEOA /\ w.balances.base >= requiredMainnetAmount + bridgeFee
    IN  [canUsePathA |-> canA, canUsePathB |-> canB, canUsePathC |-> FALSE,
         recommendedPath |-> IF canA THEN "A" ELSE IF canB THEN "B" ELSE NoPath]

\* determinePathForWallet
DeterminePathForWallet(w, requiredMainnetAmount, bridgeFee) ==
    GetWalletCapability(w, requiredMainnetAmount, bridgeFee).recommendedPath

WalletInfo(address, isEOA, mainnet, base) ==
    [address |-> address, isEOA |-> isEOA,
     balances |-> [mainnet |-> mainnet, base |-> base]]

\* C36 mutant: the first stored wallet is taken, whatever was selected
FindWalletFirst(allWallets, selectedAddress) ==
    IF allWallets = <<>> THEN {} ELSE {allWallets[1]}

\* allWallets.find((w) => w.address === selectedAddress): the first wallet
\* with the address, as a set
FindWallet(allWallets, selectedAddress) ==
    LET hits == {i \in 1..Len(allWallets) :
                    allWallets[i].address = selectedAddress}
    IN  IF hits = {} THEN {} ELSE {allWallets[Min(hits)]}

\* C16 mutant: every wallet counts as externally owned
IsEOAAny(w) == w.isEOA \/ ~w.isEOA

\* (w) => w.isEOA
IsEOA(w) == w.isEOA

\* RecommendedWallet; estimatedCost in 0.001 ETH
Recommended(address, path, estimatedCost) ==
    [address |-> address, path |-> path, estimatedCost |-> estimatedCost]

\* the null result of recommendWallet
NoRecommendation == Recommended("", NoPath, 0)

\* C14 mutant: a balance equal to the required amount is not enough
MainnetReadyAbove(eoaWallets, requiredMainnetAmount) ==
    LET Ready(w) == w.balances.mainnet > requiredMainnetAmount
    IN  SelectSeq(eoaWallets, Ready)

\* the wallets with w.balances.mainnet >= requiredMainnetAmount
MainnetReady(eoaWallets, requiredMainnetAmount) ==
    LET Ready(w) == w.balances.mainnet >= requiredMainnetAmount
    IN  SelectSeq(eoaWallets, Ready)

\* C15 mutant: a balance equal to required + fee is not enough
BaseReadyAbove(wallets, totalNeededOnBase) ==
    LET Ready(w) == w.balances.base > totalNeededOnBase
    IN  SelectSeq(wallets, Ready)

\* the wallets with w.balances.base >= totalNeededOnBase
BaseReady(wallets, totalNeededOnBase) ==
    LET Ready(w) == w.balances.base >= totalNeededOnBase
    IN  SelectSeq(wallets, Ready)

\* walletsWithBalances.filter((w) => !w.isEOA)
SmartAccounts(walletsWithBalances) ==
    LET IsSmart(w) == ~w.isEOA
    IN  SelectSeq(walletsWithBalances, IsSmart)

\* recommendWallet; find(...) is the first element of the filtered list
RecommendWallet(walletsWithBalances, requiredMainnetAmount, bridgeFee) ==
    LET eoaWallets == SelectSeq(walletsWithBalances, IsEOA)
        mainnetReady == MainnetReady(eoaWallets, requiredMainnetAmount)
        totalNeededOnBase == requiredMainnetAmount + bridgeFee
        baseReady == BaseReady(eoaWallets, totalNeededOnBase)
        smartAccounts == SmartAccounts(walletsWithBalances)
        smartAccountWithFunds == BaseReady(smartAccounts, totalNeededOnBase)
    IN  IF Len(eoaWallets) = 0 THEN NoRecommendation
        ELSE IF Len(mainnetReady) > 0
        THEN Recommended(mainnetReady[1].address, "A", requiredMainnetAmount)
        ELSE IF Len(baseReady) > 0
        THEN Recommended(baseReady[1].address, "B", totalNeededOnBase)
        ELSE IF Len(smartAccountWithFunds) > 0 /\ Len(eoaWallets) > 0
        THEN Recommended(eoaWallets[1].address, "C", totalNeededOnBase)
        ELSE NoRecommendation

\* What the oracles may answer for a user's linked wallets
Addresses == {"0xE1", "0xE2", "0xS1"}
WalletScenarios ==
    { <<>>,
      <<WalletInfo("0xS1", FALSE, 0, 40)>>,
      <<WalletInfo("0xE1", TRUE, 0, 0)>>,
      <<WalletInfo("0xE1", TRUE, 22, 0), WalletInfo("0xS1", FALSE, 0, 40)>>,
      <<WalletInfo("0xE1", TRUE, 0, 30), WalletInfo("0xE2", TRUE, 25, 0)>>,
      <<WalletInfo("0xE1", TRUE, 0, 60)>> }
Costs == {10}
Quotes == {[ok |-> TRUE, total |-> 1, isAmountTooLow |-> FALSE],
           [ok |-> TRUE, total |-> 30, isAmountTooLow |-> FALSE],
           [ok |-> TRUE, total |-> 1, isAmountTooLow |-> TRUE],
           [ok |-> FALSE, total |-> 0, isAmountTooLow |-> FALSE]}


----------------------------------------------------------------------------
(* /bridge_register *)

SelectionId(prefix, channelId, userId, timestamp) ==
    prefix \o channelId \o Dash \o userId \o Dash \o NumStr(timestamp)

\* C17 mutant: every externally-owned wallet is offered, funded or not
CapableWalletsAnyOwned(wallets, requiredMainnetETH, bridgeFee) ==
    SelectSeq(wallets, IsEOA)

\* the externally-owned wallets with a recommended path, in list order
CapableWallets(wallets, requiredMainnetETH, bridgeFee) ==
    LET Capable(w) ==
            /\ w.isEOA
            /\ GetWalletCapability(w, requiredMainnetETH, bridgeFee)
                   .recommendedPath # NoPath
    IN  SelectSeq(wallets, Capable)

\* avail as for /register; wallets: the linked wallets with their balances;
\* quote: getBridgeQuote's answer (ok = FALSE: it throws); fail: "none", "rpc" (cost, wallet or
\* quote lookup throws), "message" (the analysis message), "request".
BridgeRegisterCommand(st, channelId, userId, args, avail, cost, wallets, quote, fail) ==
    IF args = <<>> THEN SendMessage(st, channelId, "usage")
    ELSE IF InvalidYears(YearsArg(args))
    THEN SendMessage(st, channelId, "invalid_duration")
    ELSE IF ~NormalizeENSName(args[1]).valid
    THEN SendMessage(st, channelId, "invalid_domain")
    ELSE IF Len(NormalizeENSName(args[1]).normalized) < MIN_LENGTH
    THEN SendMessage(st, channelId, "domain_too_short")
    ELSE
    LET normalized == NormalizeENSName(args[1]).normalized
        s0 == SendMessage(st, channelId, "checking_availability")
        requiredMainnetETH ==
            CalculateRequiredMainnetETH(cost, GAS_BUFFER_PERCENTAGE)
        s1 == SendMessage(s0, channelId, "detecting_wallets")
        s2 == SendMessage(s1, channelId, "analyzing_wallets")
        eoaWallets == SelectSeq(wallets, IsEOA)
        bridgeFee == quote.total
        capableWallets == CapableWallets(wallets, requiredMainnetETH,
                                         bridgeFee)
        selectionId == SelectionId(PWalletSelect, channelId, userId, DateNow)
        s3 == [s2 EXCEPT !.pendingWalletSelections = MapSet(@, selectionId,
                  [userId |-> userId, channelId |-> channelId,
                   domain |-> normalized \o DotEth, label |-> normalized,
                   years |-> YearsArg(args).value,
                   allWallets |-> capableWallets,
                   requiredMainnetAmount |-> requiredMainnetETH,
                   bridgeFee |-> bridgeFee, timestamp |-> DateNow])]
        s4 == SendMessage(s3, channelId, "wallet_analysis_complete")
        s5 == SendInteractionRequest(s4,
                  FormRequest(channelId, selectionId,
                      [i \in 1..Len(capableWallets) |->
                          capableWallets[i].address], userId))
    IN  IF avail = "throw" THEN SendMessage(s0, channelId, "error_initiating")
        ELSE IF avail = "no" THEN SendMessage(s0, channelId, "not_available")
        ELSE IF fail = "rpc" THEN SendMessage(s0, channelId, "error_initiating")
        ELSE IF Len(wallets) = 0
        THEN SendMessage(s1, channelId, "no_linked_wallets")
        ELSE IF Len(eoaWallets) = 0
        THEN SendMessage(s2, channelId, "no_eoa_wallets")
        ELSE IF ~quote.ok
        THEN SendMessage(s2, channelId, "error_initiating")
        ELSE IF Len(capableWallets) = 0
        THEN SendMessage(s2, channelId, "no_capable_wallets")
        ELSE IF fail = "message"
        THEN SendMessage(s3, channelId, "error_initiating")
        ELSE IF fail = "request"
        THEN SendMessage(s4, channelId, "error_initiating")
        ELSE s5

----------------------------------------------------------------------------
(* /test_wallet_pick *)

\* wallets: the linked wallets with their balances; fail: "none", "rpc"
\* (wallet or balance lookup throws), "message", "request".
TestWalletPickCommand(st, channelId, userId, wallets, fail) ==
    LET s0 == SendMessage(st, channelId, "detecting_wallets")
        s1 == SendMessage(s0, channelId, "analyzing_wallets")
        selectionId == SelectionId(PTestWalletPick, channelId, userId, DateNow)
        s2 == [s1 EXCEPT !.pendingTestSelections = MapSet(@, selectionId,
                  [userId |-> userId, channelId |-> channelId,
                   allWallets |-> wallets, timestamp |-> DateNow])]
        s3 == SendMessage(s2, channelId, "wallet_detection_complete")
        s4 == SendInteractionRequest(s3,
                  FormRequest(channelId, selectionId,
                      [i \in 1..Len(wallets) |-> wallets[i].address], userId))
    IN  IF Len(wallets) = 0 THEN SendMessage(s0, channelId, "no_linked_wallets")
        ELSE IF fail = "rpc"
        THEN SendMessage(s1, channelId, "error_detecting_wallets")
        ELSE IF fail = "message"
        THEN SendMessage(s2, channelId, "error_detecting_wallets")
        ELSE IF fail = "request"
        THEN SendMessage(s3, channelId, "error_detecting_wallets")
        ELSE s4

----------------------------------------------------------------------------
(* onInteractionResponse, form responses *)

NoAddress == ""

\* the id of the first button component, or none
SelectedAddress(components) ==
    LET buttons == {i \in 1..Len(components) : components[i].case = "button"}
    IN  IF buttons = {} THEN NoAddress ELSE components[Min(buttons)].id

TestTxId(channelId, timestamp) ==
    PTestTx \o channelId \o Dash \o NumStr(timestamp)

\* the test-wallet-pick- branch; fail: "none", "request", "final"
TestWalletPickResponse(st, event, fail) ==
    LET requestId == event.requestId
        selection == st.pendingTestSelections[requestId]
        selectedAddress == SelectedAddress(event.components)
        selectedWallet == FindWallet(selection.allWallets, selectedAddress)
        s1 == [st EXCEPT !.pendingTestSelections = MapDelete(@, requestId)]
        s2 == SendMessage(s1, event.channelId, "wallet_selected")
        s3 == SendInteractionRequest(s2,
                  TransactionRequest(event.channelId,
                      TestTxId(event.channelId, DateNow), BASE_CHAIN,
                      [NoData EXCEPT !.fn = "0x"], selectedAddress,
                      selection.userId))
    IN  IF ~MapHas(st.pendingTestSelections, requestId)
        THEN SendMessage(st, event.channelId, "selection_expired")
        ELSE IF selectedAddress = NoAddress
        THEN SendMessage(st, event.channelId, "no_wallet_selected")
        ELSE IF selectedWallet = {}
        THEN SendMessage(st, event.channelId, "invalid_wallet_selection")
        ELSE IF fail = "request"
        THEN SendMessage(s2, event.channelId, "error_test_transaction")
        ELSE IF fail = "final"
        THEN SendMessage(s3, event.channelId, "error_test_transaction")
        ELSE SendMessage(s3, event.channelId, "test_transaction_sent")

\* C33 mutant: Path A tells the balance and goes no further
PathADirectSilent(st, event, selection, selectedAddress, fail) ==
    SendMessage(st, event.channelId, "sufficient_mainnet_balance")

\* Path A of a wallet selection; fail: "none", "rpc" (balance or commitment
\* lookup throws), "message", "request", "final"
PathADirect(st, event, selection, selectedAddress, fail) ==
    LET s1 == SendMessage(st, event.channelId, "sufficient_mainnet_balance")
        params == GenerateRegistrationParams(selection.label, selectedAddress,
                      selection.years, st.nextSecret)
        commitmentHash == MakeCommitment(params)
        commitmentId == CommitmentId(PCommit, event.channelId,
                            selection.userId, selection.label)
        s2 == [s1 EXCEPT
                 !.nextSecret = @ + 1,
                 !.pendingCommitments = MapSet(@, commitmentId,
                     CommitmentState(selection.userId, event.channelId,
                         selection.label, commitmentHash, params, DateNow))]
        s3 == SendInteractionRequest(s2,
                  TransactionRequest(event.channelId, commitmentId,
                      MAINNET_CHAIN, CommitData(commitmentHash),
                      selectedAddress, selection.userId))
    IN  IF fail \in {"rpc", "message"}
        THEN SendMessage(st, event.channelId, "error_processing_selection")
        ELSE IF fail = "rpc2"
        THEN SendMessage(s1, event.channelId, "error_processing_selection")
        ELSE IF fail = "request"
        THEN SendMessage(s2, event.channelId, "error_processing_selection")
        ELSE IF fail = "final"
        THEN SendMessage(s3, event.channelId, "error_processing_selection")
        ELSE SendMessage(s3, event.channelId, "request_sent")

BridgeId(channelId, userId, label) ==
    PBridgeEoa \o channelId \o Dash \o userId \o Dash \o label

\* prepareBridgeTransactionEOA: the deposit call of the bridge
BridgeData(amount, depositor, recipient, outputAmount) ==
    [NoData EXCEPT !.fn = "depositV3", !.owner = depositor,
                   !.recipient = recipient, !.amount = amount,
                   !.outputAmount = outputAmount]

\* C19 mutant: the fee is subtracted whatever the amounts are
OutputAmountUnclamped(requiredMainnetAmount, bridgeFee) ==
    requiredMainnetAmount - bridgeFee

\* required > fee ? required - fee : 0n
OutputAmount(requiredMainnetAmount, bridgeFee) ==
    IF requiredMainnetAmount > bridgeFee
    THEN requiredMainnetAmount - bridgeFee ELSE 0

\* C29 mutant: the record names Base as the chain bridged to
PathBBridgeSameChain(st, event, selection, selectedAddress, fail) ==
    LET bridgeId == BridgeId(event.channelId, selection.userId,
                             selection.label)
        s2 == [st EXCEPT !.pendingBridges = MapSet(@, bridgeId,
                  [userId |-> selection.userId, channelId |-> event.channelId,
                   domain |-> selection.domain, label |-> selection.label,
                   years |-> selection.years, fromChain |-> BASE_CHAIN,
                   toChain |-> BASE_CHAIN,
                   amount |-> selection.requiredMainnetAmount,
                   recipient |-> selectedAddress, timestamp |-> DateNow,
                   status |-> "pending"])]
    IN  SendMessage(s2, event.channelId, "bridge_transaction_sent")

\* Path B of a wallet selection; fail as for Path A
PathBBridge(st, event, selection, selectedAddress, fail) ==
    LET outputAmount == OutputAmount(selection.requiredMainnetAmount,
                                     selection.bridgeFee)
        s1 == SendMessage(st, event.channelId, "base_has_sufficient_funds")
        bridgeId == BridgeId(event.channelId, selection.userId,
                             selection.label)
        s2 == [s1 EXCEPT !.pendingBridges = MapSet(@, bridgeId,
                  [userId |-> selection.userId, channelId |-> event.channelId,
                   domain |-> selection.domain, label |-> selection.label,
                   years |-> selection.years, fromChain |-> BASE_CHAIN,
                   toChain |-> MAINNET_CHAIN,
                   amount |-> selection.requiredMainnetAmount,
                   recipient |-> selectedAddress, timestamp |-> DateNow,
                   status |-> "pending"])]
        s3 == SendInteractionRequest(s2,
                  TransactionRequest(event.channelId, bridgeId, BASE_CHAIN,
                      BridgeData(selection.requiredMainnetAmount,
                                 selectedAddress, selectedAddress,
                                 outputAmount),
                      selectedAddress, selection.userId))
    IN  IF fail \in {"rpc", "message"}
        THEN SendMessage(st, event.channelId, "error_processing_selection")
        ELSE IF fail = "rpc2"
        THEN SendMessage(s1, event.channelId, "error_processing_selection")
        ELSE IF fail = "request"
        THEN SendMessage(s2, event.channelId, "error_processing_selection")
        ELSE IF fail = "final"
        THEN SendMessage(s3, event.channelId, "error_processing_selection")
        ELSE SendMessage(s3, event.channelId, "bridge_transaction_sent")

\* C12 mutant: the selection stays stored after it was acted on
ConsumeSelectionKeeps(st, requestId) == st

\* pendingWalletSelections.delete(requestId), before the path is executed
ConsumeSelection(st, requestId) ==
    [st EXCEPT !.pendingWalletSelections = MapDelete(@, requestId)]

\* the wallet-select- branch
WalletSelectResponse(st, event, fail) ==
    LET requestId == event.requestId
        selection == st.pendingWalletSelections[requestId]
        selectedAddress == SelectedAddress(event.components)
        selectedWallet == FindWallet(selection.allWallets, selectedAddress)
        path == DeterminePathForWallet(CHOOSE w \in selectedWallet : TRUE,
                    selection.requiredMainnetAmount, selection.bridgeFee)
        s1 == ConsumeSelection(st, requestId)
        s2 == SendMessage(s1, event.channelId, "wallet_selected")
    IN  IF ~MapHas(st.pendingWalletSelections, requestId)
        THEN SendMessage(st, event.channelId, "selection_expired")
        ELSE IF selectedAddress = NoAddress
        THEN SendMessage(st, event.channelId, "no_wallet_selected")
        ELSE IF selectedWallet = {}
        THEN SendMessage(st, event.channelId, "invalid_wallet_selection")
        ELSE IF path = NoPath
        THEN SendMessage(st, event.channelId, "insufficient_funds")
        ELSE IF path = "A"
        THEN PathADirect(s2, event, selection, selectedAddress, fail)
        ELSE IF path = "B"
        THEN PathBBridge(s2, event, selection, selectedAddress, fail)
        ELSE s2

\* C8 mutant: the handler goes on to the selection lookup whatever the id
OnFormResponseNoPrefixCheck(st, event, fail) ==
    IF event.case # "form" THEN st
    ELSE IF StartsWith(event.requestId, PTestWalletPick)
    THEN TestWalletPickResponse(st, event, fail)
    ELSE WalletSelectResponse(st, event, fail)

\* the first onInteractionResponse handler
OnFormResponse(st, event, fail) ==
    IF event.case # "form" THEN st
    ELSE IF StartsWith(event.requestId, PTestWalletPick)
    THEN TestWalletPickResponse(st, event, fail)
    ELSE IF ~StartsWith(event.requestId, PWalletSelect) THEN st
    ELSE WalletSelectResponse(st, event, fail)

----------------------------------------------------------------------------
(* /assign_subdomain *)

ZeroAddress == "0x0"

\* String.prototype.toLowerCase on the addresses of the model
ToLowerCase(a) ==
    IF a = "0xE1" THEN "0xe1" ELSE IF a = "0xE2" THEN "0xe2"
    ELSE IF a = "0xS1" THEN "0xs1" ELSE a

\* C25 mutant: the parent's owner is looked for among all linked wallets
VerifyParentDomainOwnershipAnyWallet(wallets, currentOwner) ==
    LET owners == {i \in 1..Len(wallets) :
                      ToLowerCase(wallets[i].address) =
                          ToLowerCase(currentOwner)}
    IN  IF Len(wallets) = 0 \/ currentOwner = NoAddress \/ owners = {}
        THEN [owned |-> FALSE, ownerWallet |-> NoAddress]
        ELSE [owned |-> TRUE, ownerWallet |-> wallets[Min(owners)].address]

\* verifyParentDomainOwnership. wallets: the linked wallets, isEOA telling
\* what filterEOAs keeps; currentOwner: what ownerOf answers, NoAddress
\* when it throws (the name is not registered or has expired)
VerifyParentDomainOwnership(wallets, currentOwner) ==
    LET eoaWallets == SelectSeq(wallets, IsEOA)
        owners == {i \in 1..Len(eoaWallets) :
                      ToLowerCase(eoaWallets[i].address) =
                          ToLowerCase(currentOwner)}
    IN  IF \/ Len(wallets) = 0
           \/ Len(eoaWallets) = 0
           \/ currentOwner = NoAddress
           \/ owners = {}
        THEN [owned |-> FALSE, ownerWallet |-> NoAddress]
        ELSE [owned |-> TRUE,
              ownerWallet |-> eoaWallets[Min(owners)].address]

\* prepareSubdomainAssignment. valid: the input parses and its labels pass
\* validation; recipient: what resolveRecipient answers, NoAddress when
\* the recipient does not resolve; existingOwner: the owner of the
\* subdomain's node in the registry
PrepareSubdomainAssignment(valid, wallets, currentOwner, recipient, existingOwner) ==
    LET ownershipCheck == VerifyParentDomainOwnership(wallets, currentOwner)
        failure == [success |-> FALSE, recipient |-> NoAddress,
                    ownerWallet |-> NoAddress]
    IN  IF ~valid THEN failure
        ELSE IF ~ownershipCheck.owned THEN failure
        ELSE IF recipient = NoAddress THEN failure
        ELSE IF existingOwner # ZeroAddress THEN failure
        ELSE [success |-> TRUE, recipient |-> recipient,
              ownerWallet |-> ownershipCheck.ownerWallet]

\* The /assign_subdomain handler. prepareResult: what
\* prepareSubdomainAssignment answered; fail: "none", "message" (the
\* validation message throws), "request", "final".
AssignSubdomainCommand(st, channelId, userId, args, prepareResult, fail) ==
    IF Len(args) < 2 THEN SendMessage(st, channelId, "invalid_usage")
    ELSE
    LET s0 == SendMessage(st, channelId, "preparing_subdomain")
        s1 == SendMessage(s0, channelId, "validation_passed")
        assignmentId == PSubdomain \o channelId \o Dash \o NumStr(DateNow)
        s2 == [s1 EXCEPT !.pendingSubdomainAssignments =
                  MapSet(@, assignmentId,
                      [userId |-> userId, channelId |-> channelId,
                       fullName |-> args[1],
                       recipient |-> prepareResult.recipient,
                       ownerWallet |-> prepareResult.ownerWallet,
                       timestamp |-> DateNow])]
        s3 == SendInteractionRequest(s2,
                  TransactionRequest(channelId, assignmentId, MAINNET_CHAIN,
                      [NoData EXCEPT !.fn = "setSubnodeRecord",
                                     !.label = args[1],
                                     !.recipient = prepareResult.recipient],
                      prepareResult.ownerWallet, userId))
    IN  IF ~prepareResult.success
        THEN SendMessage(s0, channelId, "validation_failed")
        ELSE IF fail = "message"
        THEN SendMessage(s0, channelId, "unexpected_error")
        ELSE IF fail = "request"
        THEN SendMessage(s2, channelId, "unexpected_error")
        ELSE IF fail = "final"
        THEN SendMessage(s3, channelId, "unexpected_error")
        ELSE SendMessage(s3, channelId, "transaction_sent")

----------------------------------------------------------------------------
(* Events of the environment *)

NoInput ==
    [op |-> "", channelId |-> <<>>, userId |-> <<>>, args |-> <<>>,
     case |-> "", requestId |-> <<>>, txHash |-> NoTxHash,
     components |-> <<>>, timer |-> <<>>,
     wallets |-> <<>>, quote |-> <<>>, numbers |-> <<>>,
     currentOwner |-> ""]

CommandInput(op, channelId, userId, args) ==
    [NoInput EXCEPT !.op = op, !.channelId = channelId, !.userId = userId,
                    !.args = args]

TransactionEvent(requestId, txHash, channelId, userId) ==
    [NoInput EXCEPT !.op = "response", !.case = "transaction",
                    !.requestId = requestId, !.txHash = txHash,
                    !.channelId = channelId, !.userId = userId]

FormEvent(requestId, components, channelId, userId) ==
    [NoInput EXCEPT !.op = "response", !.case = "form",
                    !.requestId = requestId, !.components = components,
                    !.channelId = channelId, !.userId = userId]

Button(address) == [id |-> address, case |-> "button"]

\* what a form response may carry: no component, a text field, one button
ComponentLists ==
    {<<>>, <<[id |-> "note", case |-> "textInput"]>>}
        \cup {<<Button(a)>> : a \in Addresses}

ProbeTail == <<"1">> \o Dash \o <<"a">> \o Dash \o <<"x", "y", "z">>
PTransfer == <<"t", "r", "a", "n", "s", "f", "e", "r", "-">>

\* probe ids, one for each saga kind of the key grammar
SagaProbeIds ==
    {p \o ProbeTail :
        p \in {PCommit, PRegister, PTestCommit, PTestRegister, PTestTransfer,
               PBridgeEoa, PSubdomain, PWalletSelect, PTestWalletPick}}

\* ids of other subsystems on the same event stream
ForeignIds == {PTestTx \o ProbeTail, PTransfer \o ProbeTail}

\* the ids an event may carry: the keys stored and the probes of the run
EventIds(probes) ==
    DOMAIN pendingCommitments \cup DOMAIN pendingBridges
        \cup DOMAIN pendingWalletSelections \cup DOMAIN pendingTestSelections
        \cup DOMAIN pendingSubdomainAssignments
        \cup probes

----------------------------------------------------------------------------
(* Actions: one run of a handler or of a timer callback.  Each takes the     *)
(* inputs I the environment may choose from in the run.                      *)

\* the run's effect becomes the next state
Run(st, input) ==
    /\ st.nextSecret <= MaxSecrets + 1
    /\ st.nextTimer <= MaxTimers + 1
    /\ Cardinality(DOMAIN st.pendingWalletSelections
                   \cup DOMAIN st.pendingTestSelections) <= MaxForms
    /\ pendingCommitments' = st.pendingCommitments
    /\ pendingBridges' = st.pendingBridges
    /\ pendingWalletSelections' = st.pendingWalletSelections
    /\ pendingTestSelections' = st.pendingTestSelections
    /\ pendingSubdomainAssignments' = st.pendingSubdomainAssignments
    /\ timers' = st.timers
    /\ nextTimer' = st.nextTimer
    /\ nextSecret' = st.nextSecret
    /\ out' = st.out
    /\ last' = input
    /\ now' = now

Register(I) ==
    \E channelId \in I.channels, userId \in I.users, args \in I.args,
       avail \in I.avails, fail \in I.fails :
        LET input == CommandInput("register", channelId, userId, args)
        IN  Run(RegisterCommand(Cur, channelId, userId, args, avail, fail),
                input)

TestRegister(I) ==
    \E channelId \in I.channels, userId \in I.users, args \in I.args,
       avail \in I.avails, fail \in I.fails :
        LET input == CommandInput("test_register", channelId, userId, args)
        IN  Run(TestRegisterCommand(Cur, channelId, userId, args, avail,
                                    fail),
                input)

BridgeRegister(I) ==
    \E channelId \in I.channels, userId \in I.users, args \in I.args,
       avail \in I.avails, cost \in I.costs, wallets \in I.wallets,
       quote \in I.quotes, fail \in I.fails :
        LET input ==
                [CommandInput("bridge_register", channelId, userId, args)
                     EXCEPT !.wallets = wallets, !.quote = <<quote>>,
                            !.numbers = <<cost>>]
        IN  Run(BridgeRegisterCommand(Cur, channelId, userId, args, avail,
                                      cost, wallets, quote, fail),
                input)

TestWalletPick(I) ==
    \E channelId \in I.channels, userId \in I.users, wallets \in I.wallets,
       fail \in I.fails :
        LET input == CommandInput("test_wallet_pick", channelId, userId, <<>>)
        IN  Run(TestWalletPickCommand(Cur, channelId, userId, wallets, fail),
                input)

AssignSubdomain(I) ==
    \E channelId \in I.channels, userId \in I.users, args \in I.args,
       valid \in I.valids, wallets \in I.wallets,
       currentOwner \in I.owners, recipient \in I.recipients,
       existingOwner \in I.existingOwners, fail \in I.fails :
        LET input ==
                [CommandInput("assign_subdomain", channelId, userId, args)
                     EXCEPT !.wallets = wallets,
                            !.currentOwner = currentOwner]
        IN  Run(AssignSubdomainCommand(Cur, channelId, userId, args,
                    PrepareSubdomainAssignment(valid, wallets, currentOwner,
                                               recipient, existingOwner),
                    fail),
                input)

\* a function call with its arguments, before it is evaluated
Call(op, wallets, numbers) ==
    [NoInput EXCEPT !.op = op, !.case = "call", !.wallets = wallets,
                    !.numbers = numbers]

\* one call of recommendWallet
Recommend(I) ==
    \E wallets \in I.wallets, required \in I.requireds, fee \in I.fees :
        /\ last' = [Call("recommendWallet", wallets, <<required, fee>>)
                        EXCEPT !.case = "return"]
        /\ out' = <<RecommendWallet(wallets, required, fee)>>
        /\ UNCHANGED <<stores, timers, nextTimer, nextSecret, now>>

\* the call in last returns value
Return(value) ==
    /\ last.case = "call"
    /\ last' = [last EXCEPT !.case = "return"]
    /\ out' = value
    /\ UNCHANGED <<stores, timers, nextTimer, nextSecret, now>>

\* recommendWallet is applied to the arguments of a call
RecommendWalletCall ==
    /\ last.op = "recommendWallet"
    /\ Return(<<RecommendWallet(last.wallets, last.numbers[1],
                                last.numbers[2])>>)

\* the capable-wallet filter of /bridge_register is applied
CapableWalletsCall ==
    /\ last.op = "capableWallets"
    /\ Return(CapableWallets(last.wallets, last.numbers[1], last.numbers[2]))

\* the reveal id made of a commit key by the commit confirmation, and the
\* key the reveal confirmation makes of that id to look the record up
DeriveKeys(requestId) ==
    LET registerRequestId ==
            RegisterRequestId(requestId, StartsWith(requestId, PTestCommit))
        commitRequestId ==
            IF StartsWith(registerRequestId, PTestRegister)
            THEN CommitRequestId(registerRequestId, TRUE)
            ELSE IF StartsWith(registerRequestId, PRegister)
            THEN CommitRequestId(registerRequestId, FALSE)
            ELSE <<>>
    IN  [registerRequestId |-> registerRequestId,
         commitRequestId |-> commitRequestId]

\* the two substitutions are applied to the commit key of a call
DeriveKeysCall ==
    /\ last.op = "deriveKeys"
    /\ Return(<<DeriveKeys(last.requestId)>>)

\* calculateRequiredMainnetETH is applied to the arguments of a call
CalculateRequiredCall ==
    /\ last.op = "calculateRequiredMainnetETH"
    /\ Return(<<CalculateRequiredMainnetETH(last.numbers[1],
                                            last.numbers[2])>>)

\* Both onInteractionResponse handlers see every response, in the order
\* they were registered.
InteractionResponse(st, event, fail) ==
    OnTransactionResponse(OnFormResponse(st, event, fail), event)

TransactionResponse(I) ==
    \E requestId \in EventIds(I.probes), txHash \in I.hashes,
       channelId \in I.eventChannels, userId \in I.eventUsers :
        LET event == TransactionEvent(requestId, txHash, channelId, userId)
        IN  Run(InteractionResponse(Cur, event, "none"), event)

FormResponse(I) ==
    \E requestId \in EventIds(I.probes), components \in I.components,
       channelId \in I.eventChannels, userId \in I.eventUsers,
       fail \in I.selectionFails :
        LET event == FormEvent(requestId, components, channelId, userId)
        IN  Run(InteractionResponse(Cur, event, fail), event)

\* a form response, with the balances <<mainnet, Base>> its wallet holds
\* when the response is handled: what getBalance answers in the path
\* branches, where the answer is put into the message and nothing else
FormResponseAt(I) ==
    \E requestId \in EventIds(I.probes), components \in I.components,
       channelId \in I.eventChannels, userId \in I.eventUsers,
       fail \in I.selectionFails, balances \in I.balances :
        LET event == FormEvent(requestId, components, channelId, userId)
        IN  Run(InteractionResponse(Cur, event, fail),
                [event EXCEPT !.numbers = balances])

TimerFires(I) ==
    \E id \in DOMAIN timers, fail \in I.continuationFails :
        /\ TimerDue(timers[id])
        /\ Run(RevealContinuation(
                   [Cur EXCEPT !.timers = MapDelete(@, id)],
                   timers[id].closure, fail),
               [NoInput EXCEPT !.op = "timer", !.timer = <<timers[id]>>])

Tick ==
    /\ now + TickSeconds <= MaxTime
    /\ now' = now + TickSeconds
    /\ last' = [NoInput EXCEPT !.op = "tick"]
    /\ out' = <<>>
    /\ UNCHANGED <<stores, timers, nextTimer, nextSecret>>

Init ==
    /\ pendingCommitments = EmptyMap
    /\ pendingBridges = EmptyMap
    /\ pendingWalletSelections = EmptyMap
    /\ pendingTestSelections = EmptyMap
    /\ pendingSubdomainAssignments = EmptyMap
    /\ timers = EmptyMap
    /\ nextTimer = 1
    /\ nextSecret = 1
    /\ now = 0
    /\ last = NoInput
    /\ out = <<>>

----------------------------------------------------------------------------
(* The registration saga: /register and /test_register of one user in one   *)
(* channel, the confirmations of their requests, the delay timer.            *)

SagaInputs ==
    [channels |-> {<<"1">>}, users |-> {<<"a">>},
     args |-> {<<<<"x", "y", "z">>>>, <<<<"x", "y", "z">>, <<"2">>>>},
     avails |-> {"yes"}, fails |-> {"none"},
     hashes |-> {"0xh1", NoTxHash},
     eventChannels |-> {<<"1">>}, eventUsers |-> {<<"a">>},
     probes |-> {PRegister \o ProbeTail, PTestRegister \o ProbeTail},
     continuationFails |-> {"none", "cost", "request"}]

NextSaga ==
    \/ Register(SagaInputs)
    \/ TestRegister(SagaInputs)
    \/ TransactionResponse(SagaInputs)
    \/ TimerFires(SagaInputs)
    \/ Tick

Spec == Init /\ [][NextSaga]_vars

----------------------------------------------------------------------------
(* Funded registration: /bridge_register and /register of one user for the  *)
(* same name, the wallet selection, the confirmations, the delay timer.      *)

SelectionInputs ==
    [channels |-> {<<"1">>}, users |-> {<<"a">>},
     args |-> {<<<<"x", "y", "z">>>>},
     avails |-> {"yes"}, fails |-> {"none"},
     costs |-> Costs,
     wallets |-> {<<WalletInfo("0xE1", TRUE, 0, 30),
                    WalletInfo("0xE2", TRUE, 25, 0)>>},
     quotes |-> {[ok |-> TRUE, total |-> 1, isAmountTooLow |-> FALSE]},
     hashes |-> {"0xh1", NoTxHash},
     eventChannels |-> {<<"1">>}, eventUsers |-> {<<"a">>},
     components |-> {<<Button("0xE1")>>, <<Button("0xE2")>>},
     selectionFails |-> {"none"},
     probes |-> {},
     continuationFails |-> {"none"}]

NextSelection ==
    \/ Register(SelectionInputs)
    \/ BridgeRegister(SelectionInputs)
    \/ FormResponse(SelectionInputs)
    \/ TransactionResponse(SelectionInputs)
    \/ TimerFires(SelectionInputs)
    \/ Tick

SpecSelection == Init /\ [][NextSelection]_vars

----------------------------------------------------------------------------
(* Dispatch: events of every saga kind, and of other subsystems, for keys   *)
(* that are stored and for keys that are not.                                *)

DispatchInputs ==
    [channels |-> {<<"1">>}, users |-> {<<"a">>},
     args |-> {<<<<"x", "y", "z">>>>},
     avails |-> {"yes"}, fails |-> {"none"},
     costs |-> Costs,
     wallets |-> {<<WalletInfo("0xE1", TRUE, 0, 30),
                    WalletInfo("0xE2", TRUE, 25, 0)>>},
     quotes |-> {[ok |-> TRUE, total |-> 1, isAmountTooLow |-> FALSE]},
     hashes |-> {"0xh1", NoTxHash},
     eventChannels |-> {<<"1">>}, eventUsers |-> {<<"a">>},
     components |-> {<<Button("0xE1")>>, <<Button("0xE2")>>},
     selectionFails |-> {"none"},
     probes |-> SagaProbeIds \cup ForeignIds]

NextDispatch ==
    \/ Register(DispatchInputs)
    \/ BridgeRegister(DispatchInputs)
    \/ FormResponse(DispatchInputs)
    \/ TransactionResponse(DispatchInputs)

SpecDispatch == Init /\ [][NextDispatch]_vars

----------------------------------------------------------------------------
(* Concurrent sagas: /test_register and /bridge_register of one user for    *)
(* the same name, with the responses to their requests.                      *)

ConcurrentInputs ==
    [DispatchInputs EXCEPT
        !.probes = {PRegister \o ProbeTail, PTestRegister \o ProbeTail}]

NextConcurrent ==
    \/ TestRegister(ConcurrentInputs)
    \/ BridgeRegister(ConcurrentInputs)
    \/ FormResponse(ConcurrentInputs)
    \/ TransactionResponse(ConcurrentInputs)

SpecConcurrent == Init /\ [][NextConcurrent]_vars

----------------------------------------------------------------------------
(* Funding: /bridge_register of one user over the wallet and quote answers  *)
(* the oracles may give, the wallet selection, and recommendWallet over the *)
(* same wallets.                                                             *)

FundingInputs ==
    [channels |-> {<<"1">>}, users |-> {<<"a">>},
     args |-> {<<<<"x", "y", "z">>>>},
     avails |-> {"yes"}, fails |-> {"none"},
     costs |-> Costs,
     wallets |-> WalletScenarios,
     quotes |-> Quotes,
     requireds |-> {CalculateRequiredMainnetETH(c, GAS_BUFFER_PERCENTAGE) :
                       c \in Costs},
     fees |-> {1},
     eventChannels |-> {<<"1">>}, eventUsers |-> {<<"a">>},
     components |-> {<<[id |-> "note", case |-> "textInput"]>>,
                     <<Button("0xE1")>>, <<Button("0xE2")>>},
     selectionFails |-> {"none"},
     probes |-> {SelectionId(PWalletSelect, <<"1">>, <<"a">>, 0),
                 SelectionId(PTestWalletPick, <<"1">>, <<"a">>, 0)}]

NextFunding ==
    \/ BridgeRegister(FundingInputs)
    \/ TestWalletPick(FundingInputs)
    \/ FormResponse(FundingInputs)
    \/ Recommend(FundingInputs)

SpecFunding == Init /\ [][NextFunding]_vars

----------------------------------------------------------------------------
(* Starting a saga: /register and /bridge_register of one user over         *)
(* arguments that pass and that fail validation, preconditions that hold    *)
(* and that do not, and service calls that throw; the wallet selection.     *)

StartInputs ==
    [channels |-> {<<"1">>}, users |-> {<<"a">>},
     args |-> {<<>>, <<<<"x", "y", "z">>>>, <<<<"x", "y">>>>,
               <<<<"x", "y", "z">>, <<"0">>>>,
               <<<<"x", "y", "z">>, <<"1", "1">>>>},
     avails |-> {"yes", "no"},
     fails |-> {"none", "rpc", "message", "request", "final"},
     costs |-> Costs,
     wallets |-> {<<>>, <<WalletInfo("0xS1", FALSE, 0, 40)>>,
                  <<WalletInfo("0xE1", TRUE, 0, 0)>>,
                  <<WalletInfo("0xE1", TRUE, 0, 30),
                    WalletInfo("0xE2", TRUE, 25, 0)>>},
     quotes |-> {[ok |-> TRUE, total |-> 1, isAmountTooLow |-> FALSE],
                 [ok |-> FALSE, total |-> 0, isAmountTooLow |-> FALSE]},
     eventChannels |-> {<<"1">>}, eventUsers |-> {<<"a">>},
     components |-> {<<Button("0xE1")>>, <<Button("0xE2")>>},
     selectionFails |-> {"none", "rpc", "message", "rpc2", "request",
                         "final"},
     balances |-> {<<0, 0>>, <<25, 60>>},
     probes |-> {}]

NextStart ==
    \/ Register(StartInputs)
    \/ BridgeRegister(StartInputs)
    \/ FormResponseAt(StartInputs)

SpecStart == Init /\ [][NextStart]_vars

----------------------------------------------------------------------------
(* The delay: /register of one user, the confirmations of its requests and  *)
(* the timer, with time passing for as long as a timer waits and every      *)
(* callback run once it is due.                                              *)

DelayInputs ==
    [channels |-> {<<"1">>}, users |-> {<<"a">>},
     args |-> {<<<<"x", "y", "z">>>>},
     avails |-> {"yes"}, fails |-> {"none"},
     hashes |-> {"0xh1", NoTxHash},
     eventChannels |-> {<<"1">>}, eventUsers |-> {<<"a">>},
     probes |-> {},
     continuationFails |-> {"none", "request"}]

\* the clock moves on while a callback waits for its delay
Elapse ==
    /\ \E id \in DOMAIN timers : ~TimerDue(timers[id])
    /\ now' = now + TickSeconds
    /\ last' = [NoInput EXCEPT !.op = "tick"]
    /\ out' = <<>>
    /\ UNCHANGED <<stores, timers, nextTimer, nextSecret>>

NextDelay ==
    \/ Register(DelayInputs)
    \/ TransactionResponse(DelayInputs)
    \/ TimerFires(DelayInputs)
    \/ Elapse

\* setTimeout: the event loop runs the callback once its delay has passed
SpecDelay ==
    /\ Init
    /\ [][NextDelay]_vars
    /\ WF_vars(Elapse)
    /\ WF_vars(TimerFires(DelayInputs))

----------------------------------------------------------------------------
(* Repeated confirmations: /register of one user, confirmations of its      *)
(* commit request delivered more than once and with different hashes, the   *)
(* timer.                                                                    *)

RepeatInputs ==
    [DelayInputs EXCEPT !.hashes = {"0xh1", "0xh2", NoTxHash}]

NextRepeat ==
    \/ Register(RepeatInputs)
    \/ TransactionResponse(RepeatInputs)
    \/ TimerFires(RepeatInputs)
    \/ Elapse

SpecRepeat == Init /\ [][NextRepeat]_vars

----------------------------------------------------------------------------
(* Foreign confirmations: /register of one user, and responses to its       *)
(* requests delivered with that user and channel or with another user and   *)
(* another channel.                                                          *)

ForeignInputs ==
    [DelayInputs EXCEPT !.eventUsers = {<<"a">>, <<"b">>},
                        !.eventChannels = {<<"1">>, <<"2">>}]

NextForeign ==
    \/ Register(ForeignInputs)
    \/ TransactionResponse(ForeignInputs)
    \/ TimerFires(ForeignInputs)
    \/ Elapse

SpecForeign == Init /\ [][NextForeign]_vars

----------------------------------------------------------------------------
(* Subdomains: /assign_subdomain of one user over the wallets linked and    *)
(* the owners the registrar may name, and the responses to its requests.    *)

SubdomainInputs ==
    [channels |-> {<<"1">>}, users |-> {<<"a">>},
     args |-> {<<<<"s">>>>, <<<<"s">>, <<"r">>>>},
     valids |-> BOOLEAN,
     wallets |-> {<<>>, <<WalletInfo("0xS1", FALSE, 0, 0)>>,
                  <<WalletInfo("0xS1", FALSE, 0, 0),
                    WalletInfo("0xE1", TRUE, 0, 0),
                    WalletInfo("0xE2", TRUE, 0, 0)>>},
     owners |-> {NoAddress, "0xe1", "0xS1", "0xZ9"},
     recipients |-> {NoAddress, "0xR1"},
     existingOwners |-> {ZeroAddress, "0xZ9"},
     fails |-> {"none", "request"},
     hashes |-> {"0xh1", NoTxHash},
     eventChannels |-> {<<"1">>}, eventUsers |-> {<<"a">>},
     probes |-> {PSubdomain \o ProbeTail}]

NextSubdomain ==
    \/ AssignSubdomain(SubdomainInputs)
    \/ TransactionResponse(SubdomainInputs)
    \/ Tick

SpecSubdomain == Init /\ [][NextSubdomain]_vars

----------------------------------------------------------------------------
(* Keys: /register, /test_register and /bridge_register of two users in one *)
(* channel for two names, one of them with a hyphen, and the wallet         *)
(* selection of the first user, which takes the direct path.                *)

KeysInputs ==
    [SelectionInputs EXCEPT
        !.users = {<<"a">>, <<"b">>},
        !.args = {<<<<"x", "y", "z">>>>, <<<<"x", "-", "y">>, <<"2">>>>},
        !.wallets = {<<WalletInfo("0xE2", TRUE, 25, 0)>>},
        !.components = {<<Button("0xE2")>>}]

NextKeys ==
    \/ Register(KeysInputs)
    \/ TestRegister(KeysInputs)
    \/ BridgeRegister(KeysInputs)
    \/ FormResponse(KeysInputs)

SpecKeys == Init /\ [][NextKeys]_vars

----------------------------------------------------------------------------
(* pollBridgeStatus: one call at a time, over the answers a status request  *)
(* may give and a callback that returns or throws.  In this specification   *)
(* out holds the callback invocations of the call since it was made.        *)

\* BRIDGE_CONFIG.POLL_INTERVAL_MS
POLL_INTERVAL_MS == 10000

\* one run of poll; answer: "notok" (response.ok is false), "throws" (fetch
\* or response.json() throws), or the status "filled", "expired", "pending";
\* callbackThrows: the callback throws when it is invoked, inside the try
Poll(st, closure, answer, callbackThrows) ==
    LET inTime == DateNow - closure.startTime < closure.maxWaitMs
        again(s) == IF inTime THEN SetTimeout(s, closure, POLL_INTERVAL_MS)
                    ELSE s
        called(status) ==
            [st EXCEPT !.out = Append(@, [type |-> "callback",
                                          status |-> status])]
    IN  IF answer \in {"notok", "throws"} THEN again(st)
        ELSE IF answer \in {"filled", "expired"}
        THEN IF callbackThrows THEN again(called(answer)) ELSE called(answer)
        ELSE IF inTime THEN SetTimeout(st, closure, POLL_INTERVAL_MS)
        ELSE IF callbackThrows THEN again(called("pending"))
        ELSE called("pending")

PollInput(op, closure, answer, callbackThrows) ==
    [NoInput EXCEPT !.op = op, !.case = answer,
                    !.numbers = <<closure.startTime, closure.maxWaitMs>>,
                    !.args = <<IF callbackThrows THEN "throws"
                               ELSE "returns">>]

PollRun(st, input) ==
    /\ timers' = st.timers
    /\ nextTimer' = st.nextTimer
    /\ out' = st.out
    /\ last' = input
    /\ UNCHANGED <<stores, nextSecret, now>>

\* pollBridgeStatus(depositId, fromChainId, callback, maxWaitMs): startTime
\* is taken and poll is run once; the call is made while no earlier call is
\* polling and while its wait fits into the clock of the model
PollBridgeStatus(I) ==
    \E maxWaitMs \in I.maxWaits, answer \in I.answers,
       callbackThrows \in I.callbackThrows :
        LET closure == [startTime |-> DateNow, maxWaitMs |-> maxWaitMs]
        IN  /\ timers = EmptyMap
            /\ DateNow + maxWaitMs + POLL_INTERVAL_MS <= MaxTime * 1000
            /\ PollRun(Poll(Cur, closure, answer, callbackThrows),
                       PollInput("pollBridgeStatus", closure, answer,
                                 callbackThrows))

\* setTimeout(poll, pollInterval) comes due and poll runs again
PollFires(I) ==
    \E id \in DOMAIN timers, answer \in I.answers,
       callbackThrows \in I.callbackThrows :
        /\ TimerDue(timers[id])
        /\ PollRun(Poll([Cur EXCEPT !.timers = MapDelete(@, id),
                                    !.out = out],
                        timers[id].closure, answer, callbackThrows),
                   PollInput("poll", timers[id].closure, answer,
                             callbackThrows))

\* time passes while a poll is scheduled
PollWait ==
    /\ timers # EmptyMap
    /\ now * 1000 + POLL_INTERVAL_MS <= MaxTime * 1000
    /\ now' = now + POLL_INTERVAL_MS \div 1000
    /\ UNCHANGED <<stores, timers, nextTimer, nextSecret, last, out>>

PollInputs ==
    [maxWaits |-> {0, 10000, 25000},
     answers |-> {"notok", "throws", "filled", "expired", "pending"},
     callbackThrows |-> {FALSE, TRUE}]

NextPoll ==
    \/ PollBridgeStatus(PollInputs)
    \/ PollFires(PollInputs)
    \/ PollWait

\* setTimeout: the event loop runs poll once its interval has passed
SpecPoll ==
    Init /\ [][NextPoll]_vars /\ WF_vars(PollWait)
         /\ WF_vars(PollFires(PollInputs))

----------------------------------------------------------------------------
(* Analysis: the pure functions of the funding analysis and of the key      *)
(* derivation, applied to inputs drawn from bounded sets.                    *)

WalletNames == <<"0xW1", "0xW2", "0xW3">>

\* balances below, at and above the amounts of AnalysisInputs
BalanceLevels == {0, 21, 22, 23}

\* the wallet lists of up to MaxWallets wallets
WalletLists ==
    UNION {[1..n -> [isEOA : BOOLEAN, mainnet : BalanceLevels,
                     base : BalanceLevels]] : n \in 0..MaxWallets}

\* a list of WalletInfo with one address for each position
AsWallets(list) ==
    [i \in 1..Len(list) |->
        WalletInfo(WalletNames[i], list[i].isEOA, list[i].mainnet,
                   list[i].base)]

\* labels without and with the prefixes of the key grammar inside
KeyLabels ==
    {<<"x", "y", "z">>}
        \cup {p \o <<"x">> : p \in {PCommit, PRegister, PTestCommit,
                                    PTestRegister}}
        \cup {<<"x">> \o p : p \in {PCommit, PRegister, PTestCommit,
                                    PTestRegister}}
        \cup {PRegister \o PCommit, PCommit \o PRegister \o <<"x">>}

\* the amounts of a funding analysis: required amount and bridge fee
AnalysisAmounts ==
    {<<CalculateRequiredMainnetETH(c, GAS_BUFFER_PERCENTAGE), fee>> :
        c \in Costs, fee \in {0, 1}}

\* the calls of a run
AnalysisCalls ==
    {Call(op, AsWallets(list), amounts) :
        op \in {"recommendWallet", "capableWallets"},
        list \in WalletLists, amounts \in AnalysisAmounts}
    \cup {Call("calculateRequiredMainnetETH", <<>>, <<cost, percent>>) :
             cost \in 0..MaxCost,
             percent \in {0, GAS_BUFFER_PERCENTAGE, 25}}
    \cup {[Call("deriveKeys", <<>>, <<>>) EXCEPT
               !.requestId = CommitmentId(prefix, <<"1">>, <<"a">>, label)] :
             prefix \in {PCommit, PTestCommit}, label \in KeyLabels}

InitAnalysis ==
    /\ pendingCommitments = EmptyMap
    /\ pendingBridges = EmptyMap
    /\ pendingWalletSelections = EmptyMap
    /\ pendingTestSelections = EmptyMap
    /\ pendingSubdomainAssignments = EmptyMap
    /\ timers = EmptyMap
    /\ nextTimer = 1
    /\ nextSecret = 1
    /\ now = 0
    /\ last \in AnalysisCalls
    /\ out = <<>>

NextAnalysis ==
    \/ RecommendWalletCall
    \/ CapableWalletsCall
    \/ CalculateRequiredCall
    \/ DeriveKeysCall

SpecAnalysis == InitAnalysis /\ [][NextAnalysis]_vars

----------------------------------------------------------------------------
(* Properties of the registration saga *)

\* the reveal (register) transaction requests among what a run sent
RevealRequests(o) ==
    {i \in 1..Len(o) : o[i].type = "transaction" /\ o[i].data.fn = "register"}

\* the commit transaction requests among what a run sent
CommitRequests(o) ==
    {i \in 1..Len(o) : o[i].type = "transaction" /\ o[i].data.fn = "commit"}

IsCommitKey(id) == StartsWith(id, PCommit) \/ StartsWith(id, PTestCommit)

IsRevealKey(id) == StartsWith(id, PRegister) \/ StartsWith(id, PTestRegister)

\* the commit key a reveal id stands for
CommitKeyOf(id) == CommitRequestId(id, StartsWith(id, PTestRegister))

\* the step was the run of a handler on a transaction response
TransactionStep == last'.op = "response" /\ last'.case = "transaction"

\* the step was the run of a delay-timer continuation
TimerStep == last'.op = "timer"

\* the timer whose continuation the last step ran
FiredTimer(l) == l.timer[1]

\* C1: A reveal request for a commit- or testcommit- key is issued only after
\* a commit confirmation carrying a transaction hash was processed for that
\* key and the full minimum commitment age has elapsed since then. A delay
\* timer is started only by the run that processes such a confirmation for a
\* stored key, at the time of that run; a reveal request is sent only by the
\* continuation of such a timer, for the timer's key, and no earlier than
\* MIN_COMMITMENT_AGE seconds after the timer was started.
C1_RevealOnlyAfterDelay ==
    [][ /\ \A id \in DOMAIN timers' \ DOMAIN timers :
              /\ TransactionStep
              /\ last'.txHash # NoTxHash
              /\ IsCommitKey(last'.requestId)
              /\ last'.requestId \in DOMAIN pendingCommitments
              /\ timers'[id].closure.requestId = last'.requestId
              /\ timers'[id].closure.txHash = last'.txHash
              /\ pendingCommitments'[last'.requestId].commitTxHash
                     = last'.txHash
              /\ timers'[id].setAt = DateNow
        /\ \A i \in RevealRequests(out') :
              /\ TimerStep
              /\ FiredTimer(last') \in {timers[id] : id \in DOMAIN timers}
              /\ IsCommitKey(FiredTimer(last').closure.requestId)
              /\ out'[i].id = RegisterRequestId(
                                  FiredTimer(last').closure.requestId,
                                  FiredTimer(last').closure.test)
              /\ FiredTimer(last').closure.txHash # NoTxHash
              /\ DateNow >= FiredTimer(last').setAt
                                + MIN_COMMITMENT_AGE * 1000
      ]_vars

\* C1 witness: the confirmation was processed at the very instant the commit
\* request was sent (zero latency), and the reveal request has just been
\* issued by the timer, a full delay later.
C1_ZeroLatencyReveal ==
    /\ last.op = "timer"
    /\ RevealRequests(out) # {}
    /\ FiredTimer(last).closure.requestId \in DOMAIN pendingCommitments
    /\ LET record == pendingCommitments[FiredTimer(last).closure.requestId]
       IN  /\ record.secret = FiredTimer(last).closure.commitment.secret
           /\ record.timestamp = FiredTimer(last).setAt
           /\ DateNow = record.timestamp + MIN_COMMITMENT_AGE * 1000

\* C2: When a commit confirmation without a transaction hash arrives for a
\* key present in the commitment store, the record is removed, the
\* cancellation message is the only thing sent, and the event schedules no
\* delay timer (so it leads to no reveal request); no other record changes.
C2_CommitRejectedCancels ==
    [][ ( /\ TransactionStep
          /\ last'.txHash = NoTxHash
          /\ IsCommitKey(last'.requestId)
          /\ last'.requestId \in DOMAIN pendingCommitments )
        => /\ pendingCommitments'
                 = MapDelete(pendingCommitments, last'.requestId)
           /\ last'.requestId \notin DOMAIN pendingCommitments'
           /\ out' = <<Message(last'.channelId, "commit_cancelled")>>
           /\ timers' = timers
           /\ nextTimer' = nextTimer
      ]_vars

\* C2 witness: a commit confirmation without hash has just cancelled a saga
\* whose record is gone.
C2_CancelledReached ==
    /\ last.op = "response"
    /\ last.case = "transaction"
    /\ last.txHash = NoTxHash
    /\ IsCommitKey(last.requestId)
    /\ out = <<Message(last.channelId, "commit_cancelled")>>
    /\ last.requestId \notin DOMAIN pendingCommitments

\* C3: On a reveal (register- / test_register-) confirmation for a pending
\* commitment, the record is deleted if and only if the event carries a
\* transaction hash; without a hash the whole commitment store is unchanged,
\* the record staying under its commit key.
C3_RevealDeletesIffHash ==
    [][ ( /\ TransactionStep
          /\ IsRevealKey(last'.requestId)
          /\ CommitKeyOf(last'.requestId) \in DOMAIN pendingCommitments )
        => /\ (last'.txHash # NoTxHash)
                 <=> (CommitKeyOf(last'.requestId)
                          \notin DOMAIN pendingCommitments')
           /\ last'.txHash # NoTxHash
                 => pendingCommitments'
                      = MapDelete(pendingCommitments,
                                  CommitKeyOf(last'.requestId))
           /\ last'.txHash = NoTxHash
                 => pendingCommitments' = pendingCommitments
      ]_vars

\* C3 witness: a reveal confirmation without hash was reported, and the
\* record, with its commit hash, is still stored under the commit key.
C3_FailedRevealKeepsRecord ==
    /\ last.op = "response"
    /\ last.case = "transaction"
    /\ last.txHash = NoTxHash
    /\ IsRevealKey(last.requestId)
    /\ out = <<Message(last.channelId, "registration_not_confirmed")>>
    /\ CommitKeyOf(last.requestId) \in DOMAIN pendingCommitments
    /\ pendingCommitments[CommitKeyOf(last.requestId)].commitTxHash
           # NoTxHash

RevealedParams(req) ==
    [label |-> req.data.label, owner |-> req.data.owner,
     duration |-> req.data.duration, secret |-> req.data.secret]

\* the registration parameters a commitment record holds
StoredParams(record) ==
    [label |-> record.label, owner |-> record.owner,
     duration |-> record.duration, secret |-> record.secret]

\* a run that creates a commitment record: /register, /test_register or a
\* wallet selection
CreationStep ==
    \/ last'.op \in {"register", "test_register"}
    \/ last'.op = "response" /\ last'.case = "form"

\* C5: The reveal request carries exactly the secret, duration, owner and
\* label stored in the commitment record at its creation, and nothing
\* changes a record's secret or commitment hash in between. A record is
\* created with a commitment hash made of its own parameters; a record that
\* stays in the store keeps parameters and hash; the timer's continuation
\* holds the parameters of the record whose confirmation started it; and the
\* reveal request carries the parameters the continuation holds, which are
\* those of the record when it is still stored.
C5_RevealCarriesStoredParameters ==
    [][ /\ \A k \in DOMAIN pendingCommitments' :
              \/ /\ k \in DOMAIN pendingCommitments
                 /\ StoredParams(pendingCommitments'[k])
                        = StoredParams(pendingCommitments[k])
                 /\ pendingCommitments'[k].commitment
                        = pendingCommitments[k].commitment
              \/ /\ CreationStep
                 /\ pendingCommitments'[k].secret = nextSecret
                 /\ nextSecret' = nextSecret + 1
                 /\ pendingCommitments'[k].commitment
                        = MakeCommitment(StoredParams(pendingCommitments'[k]))
        /\ \A id \in DOMAIN timers' \ DOMAIN timers :
              /\ timers'[id].closure.requestId \in DOMAIN pendingCommitments
              /\ StoredParams(timers'[id].closure.commitment)
                     = StoredParams(
                           pendingCommitments[timers'[id].closure.requestId])
        /\ \A i \in RevealRequests(out') :
              /\ TimerStep
              /\ RevealedParams(out'[i])
                     = StoredParams(FiredTimer(last').closure.commitment)
              /\ \A k \in DOMAIN pendingCommitments :
                     pendingCommitments[k].secret = out'[i].data.secret
                         => /\ RevealedParams(out'[i])
                                   = StoredParams(pendingCommitments[k])
                            /\ MakeCommitment(RevealedParams(out'[i]))
                                   = pendingCommitments[k].commitment
                            /\ out'[i].id = RegisterRequestId(k,
                                   FiredTimer(last').closure.test)
      ]_vars

\* C5 witness: a reveal request for a two-year registration has been issued
\* while its record is still stored, and it carries the record's parameters.
C5_RevealOfStoredRecord ==
    /\ last.op = "timer"
    /\ \E i \in RevealRequests(out) :
           /\ FiredTimer(last).closure.requestId \in DOMAIN pendingCommitments
           /\ RevealedParams(out[i])
                  = StoredParams(
                        pendingCommitments[FiredTimer(last).closure.requestId])
           /\ out[i].data.duration = 2 * SECONDS_PER_YEAR

\* C7: A reveal confirmation is accepted (success reported, record deleted)
\* only if a commit confirmation has stored its transaction hash on the
\* commitment record.
C7_RevealAcceptedOnlyAfterCommit ==
    [][ ( /\ TransactionStep
          /\ IsRevealKey(last'.requestId)
          /\ CommitKeyOf(last'.requestId) \in DOMAIN pendingCommitments
          /\ pendingCommitments[CommitKeyOf(last'.requestId)].commitTxHash
                 = NoTxHash )
        => /\ CommitKeyOf(last'.requestId) \in DOMAIN pendingCommitments'
           /\ \A i \in 1..Len(out') :
                  out'[i].text # "registration_successful"
      ]_vars

----------------------------------------------------------------------------
(* Properties of the correlation keys *)

\* the key under which the run of a command or of a wallet selection stores
\* the commitment record it creates
CreatedKey(l, selections) ==
    IF l.op = "register"
    THEN CommitmentId(PCommit, l.channelId, l.userId,
                      NormalizeENSName(l.args[1]).normalized)
    ELSE IF l.op = "test_register"
    THEN CommitmentId(PTestCommit, l.channelId, l.userId,
                      NormalizeENSName(l.args[1]).normalized)
    ELSE IF l.op = "response" /\ l.case = "form"
              /\ l.requestId \in DOMAIN selections
    THEN CommitmentId(PCommit, l.channelId, selections[l.requestId].userId,
                      selections[l.requestId].label)
    ELSE <<>>

\* C6 (as stated): while a commitment record is pending under a key, no
\* request replaces the secret or the commitment hash stored under that key.
C6_NeverRegeneratedUnderKey ==
    [][ \A k \in DOMAIN pendingCommitments \cap DOMAIN pendingCommitments' :
            /\ pendingCommitments'[k].secret = pendingCommitments[k].secret
            /\ pendingCommitments'[k].commitment
                   = pendingCommitments[k].commitment
      ]_vars

\* C6 (amended): the secret and commitment hash of a stored record are never
\* modified in place; the pair under a key changes only when a new request
\* for the same key (/register, /test_register, a Path A wallet selection)
\* supersedes the whole record by a new one with a fresh secret, the hash
\* made of its own parameters and no commit transaction hash.
C6_ChangedOnlyBySupersession ==
    [][ \A k \in DOMAIN pendingCommitments \cap DOMAIN pendingCommitments' :
            \/ /\ pendingCommitments'[k].secret = pendingCommitments[k].secret
               /\ pendingCommitments'[k].commitment
                      = pendingCommitments[k].commitment
            \/ /\ k = CreatedKey(last', pendingWalletSelections)
               /\ CommitRequests(out') # {}
               /\ pendingCommitments'[k].secret = nextSecret
               /\ nextSecret' = nextSecret + 1
               /\ pendingCommitments'[k].commitment
                      = MakeCommitment(StoredParams(pendingCommitments'[k]))
               /\ pendingCommitments'[k].commitTxHash = NoTxHash
               /\ pendingCommitments'[k].timestamp = DateNow
      ]_vars

\* C6 witness: a Path A wallet selection has just stored a new record under
\* a key for which the delay timer of an earlier record, with another
\* secret, is still running.
C6_SupersededByPathA ==
    /\ last.op = "response"
    /\ last.case = "form"
    /\ \E i \in CommitRequests(out) :
           /\ out[i].id \in DOMAIN pendingCommitments
           /\ pendingCommitments[out[i].id].timestamp = DateNow
           /\ \E id \in DOMAIN timers :
                  /\ timers[id].closure.requestId = out[i].id
                  /\ timers[id].closure.commitment.secret
                         # pendingCommitments[out[i].id].secret

\* the prefixes of the key grammar
RecognisedPrefixes ==
    {PCommit, PRegister, PTestCommit, PTestRegister, PTestTransfer,
     PBridgeEoa, PWalletSelect, PTestWalletPick, PSubdomain}

Recognised(id) == \E p \in RecognisedPrefixes : StartsWith(id, p)

\* C8: A confirmation or selection event whose request id starts with no
\* recognised prefix is ignored: every store, the timers and the secret
\* source are unchanged, and nothing is sent (no message, no request).
C8_UnrecognisedPrefixIgnored ==
    [][ (last'.op = "response" /\ ~Recognised(last'.requestId))
        => /\ UNCHANGED <<stores, timers, nextTimer, nextSecret>>
           /\ out' = <<>>
      ]_vars

\* C8 witness: a selection event of another subsystem has been handled while
\* a wallet selection and a commitment were pending.
C8_ForeignSelectionEvent ==
    /\ last.op = "response"
    /\ last.case = "form"
    /\ last.requestId \in ForeignIds
    /\ out = <<>>
    /\ pendingWalletSelections # EmptyMap
    /\ pendingCommitments # EmptyMap

\* the store a key of a given prefix is looked up in
StoreKeys(id) ==
    IF IsCommitKey(id) \/ IsRevealKey(id) THEN DOMAIN pendingCommitments
    ELSE IF StartsWith(id, PBridgeEoa) THEN DOMAIN pendingBridges
    ELSE IF StartsWith(id, PWalletSelect) THEN DOMAIN pendingWalletSelections
    ELSE IF StartsWith(id, PTestWalletPick) THEN DOMAIN pendingTestSelections
    ELSE DOMAIN pendingSubdomainAssignments

\* the prefixes of confirmations and those of selections
ConfirmationPrefixes ==
    {PCommit, PRegister, PTestCommit, PTestRegister, PBridgeEoa, PSubdomain}
SelectionPrefixes == {PWalletSelect, PTestWalletPick}

\* an event of a recognised kind whose key is not in its store
AbsentKeyEvent(l) ==
    /\ l.op = "response"
    /\ \/ /\ l.case = "transaction"
          /\ \E p \in ConfirmationPrefixes : StartsWith(l.requestId, p)
       \/ /\ l.case = "form"
          /\ \E p \in SelectionPrefixes : StartsWith(l.requestId, p)
    /\ (IF IsRevealKey(l.requestId) THEN CommitKeyOf(l.requestId)
        ELSE l.requestId) \notin StoreKeys(l.requestId)

\* C9 (as stated): for every recognised prefix, an event whose key is absent
\* from its store produces the user-visible expiry message, starts no saga
\* step and leaves every stored record as it is.
C9_AbsentKeyReportsExpiry ==
    [][ AbsentKeyEvent(last')
        => /\ out' = <<Message(last'.channelId, "selection_expired")>>
           /\ UNCHANGED <<stores, timers, nextTimer, nextSecret>>
      ]_vars

\* C10 (as stated): a confirmation with a transaction hash for a bridge-eoa-
\* key whose operation is stored with status pending sets the status to
\* submitted.
C10_BridgeConfirmationSubmits ==
    [][ ( /\ TransactionStep
          /\ last'.txHash # NoTxHash
          /\ StartsWith(last'.requestId, PBridgeEoa)
          /\ last'.requestId \in DOMAIN pendingBridges
          /\ pendingBridges[last'.requestId].status = "pending" )
        => /\ last'.requestId \in DOMAIN pendingBridges'
           /\ pendingBridges'[last'.requestId].status = "submitted"
      ]_vars

----------------------------------------------------------------------------
(* Properties of the funding analysis and of the bridged path *)

\* the wallet-selection prompts and transaction requests among what a run
\* sent
InteractionRequests(o) ==
    {i \in 1..Len(o) : o[i].type \in {"form", "transaction"}}

\* the quote a /bridge_register run was answered with could not be fetched
\* or is flagged 'amount too low'
UnusableQuote(l) ==
    /\ l.op = "bridge_register"
    /\ l.quote # <<>>
    /\ (~l.quote[1].ok \/ l.quote[1].isAmountTooLow)

\* C11: a /bridge_register run whose bridge quote could not be fetched or is
\* flagged 'amount too low' stops with a message to the user: it sends no
\* wallet-selection prompt and no transaction request, and it stores no
\* selection, commitment or bridge record.
C11_UnusableQuoteStopsFlow ==
    [][UnusableQuote(last') =>
          /\ InteractionRequests(out') = {}
          /\ out' # <<>>
          /\ out'[Len(out')].type = "message"
          /\ stores' = stores]_vars


\* a form response whose id has a selection prefix
SelectionResponseStep ==
    /\ last'.op = "response"
    /\ last'.case = "form"
    /\ \/ StartsWith(last'.requestId, PWalletSelect)
       \/ StartsWith(last'.requestId, PTestWalletPick)

\* the keys of the selections pending in the store an id belongs to
PendingSelectionIds(id, walletSelections, testSelections) ==
    IF StartsWith(id, PTestWalletPick) THEN DOMAIN testSelections
    ELSE DOMAIN walletSelections

\* a run started a saga step: it stored a commitment or bridge record or
\* issued a transaction request
StartsSagaStep ==
    \/ pendingCommitments' # pendingCommitments
    \/ pendingBridges' # pendingBridges
    \/ \E i \in 1..Len(out') : out'[i].type = "transaction"

\* C12: a PendingSelection is consumed exactly once.  A selection response
\* starts a saga step (stores a commitment or bridge record, or issues a
\* transaction request) only if the selection is pending under its id, and
\* that very run removes the selection; a response whose id has no pending
\* selection changes no store and is answered by the 'selection expired'
\* message alone; no response stores a selection.  Hence of the responses
\* to one selection at most one starts a saga step.
C12_SelectionConsumedOnce ==
    [][SelectionResponseStep =>
          LET id == last'.requestId
              before == PendingSelectionIds(id, pendingWalletSelections,
                                            pendingTestSelections)
              after == PendingSelectionIds(id, pendingWalletSelections',
                                           pendingTestSelections')
          IN  /\ StartsSagaStep => id \in before /\ id \notin after
              /\ id \notin before =>
                    /\ stores' = stores
                    /\ out' = <<Message(last'.channelId,
                                        "selection_expired")>>
              /\ DOMAIN pendingWalletSelections'
                     \subseteq DOMAIN pendingWalletSelections
              /\ DOMAIN pendingTestSelections'
                     \subseteq DOMAIN pendingTestSelections]_vars

\* C12 witness: a second response to a wallet selection that an earlier
\* response consumed and acted on (its bridge record is stored) has just
\* been answered by 'selection expired'
C12_LateResponseExpired ==
    /\ last.op = "response"
    /\ last.case = "form"
    /\ StartsWith(last.requestId, PWalletSelect)
    /\ SelectedAddress(last.components) # NoAddress
    /\ last.requestId \notin DOMAIN pendingWalletSelections
    /\ pendingBridges # EmptyMap
    /\ pendingCommitments = EmptyMap
    /\ out = <<Message(last.channelId, "selection_expired")>>


----------------------------------------------------------------------------
(* Frame of an event: the records a response may touch *)

\* the keys under which a store was given, lost or changed a record
Touched(before, after) ==
    {k \in DOMAIN before \cup DOMAIN after :
        \/ k \notin DOMAIN before
        \/ k \notin DOMAIN after
        \/ after[k] # before[k]}

\* the keys under which a step touched a record of some store
TouchedKeys ==
    Touched(pendingCommitments, pendingCommitments')
        \cup Touched(pendingBridges, pendingBridges')
        \cup Touched(pendingWalletSelections, pendingWalletSelections')
        \cup Touched(pendingTestSelections, pendingTestSelections')
        \cup Touched(pendingSubdomainAssignments,
                     pendingSubdomainAssignments')

\* the key of an event and, for a reveal key, the commit key derived from it
OwnKeys(id) ==
    IF IsRevealKey(id) THEN {id, CommitKeyOf(id)} ELSE {id}

\* the keys of the records a wallet selection pending under an id leads to:
\* the commitment of Path A and the bridge operation of Path B for the
\* selection's channel, user and label
SuccessorKeys(l, selections) ==
    IF l.case = "form" /\ StartsWith(l.requestId, PWalletSelect)
       /\ l.requestId \in DOMAIN selections
    THEN {PCommit \o l.channelId \o Dash \o selections[l.requestId].userId
              \o Dash \o selections[l.requestId].label,
          PBridgeEoa \o l.channelId \o Dash \o selections[l.requestId].userId
              \o Dash \o selections[l.requestId].label}
    ELSE {}

----------------------------------------------------------------------------
(* Properties of recommendWallet *)

\* recommendWallet has returned; its arguments are in last, its result in out
RecommendReturned == last.op = "recommendWallet" /\ last.case = "return"

\* the positions of the wallets of a call whose mainnet balance is at least
\* the required amount
MainnetFunded(l) ==
    {i \in 1..Len(l.wallets) : l.wallets[i].balances.mainnet >= l.numbers[1]}

\* the positions of the wallets of a call whose Base balance is at least
\* required + fee
BaseFunded(l) ==
    {i \in 1..Len(l.wallets) :
        l.wallets[i].balances.base >= l.numbers[1] + l.numbers[2]}

\* the positions of the externally-owned wallets of a call
Owned(l) == {i \in 1..Len(l.wallets) : l.wallets[i].isEOA}

\* C14 (as stated): when a wallet of the list has a mainnet balance of at
\* least the required amount, the path chosen is A, whatever the Base
\* balances are.
C14_MainnetFundedGetsPathA ==
    (RecommendReturned /\ MainnetFunded(last) # {}) => out[1].path = "A"

\* C14 (amended): when an externally-owned wallet of the list has a mainnet
\* balance of at least the required amount, the path chosen is A, whatever
\* the Base balances are; the wallet returned is the first such wallet and
\* the estimated cost is the required amount.
C14_MainnetFundedOwnedGetsPathA ==
    (RecommendReturned /\ MainnetFunded(last) \cap Owned(last) # {}) =>
        /\ out[1].path = "A"
        /\ out[1].address
               = last.wallets[Min(MainnetFunded(last) \cap Owned(last))]
                     .address
        /\ out[1].estimatedCost = last.numbers[1]

\* C14 witness: path A was chosen for an externally-owned wallet that holds
\* exactly the required amount on mainnet and enough on Base for path B
C14_PathAForDoublyFunded ==
    /\ RecommendReturned
    /\ out[1].path = "A"
    /\ \E i \in MainnetFunded(last) \cap Owned(last) \cap BaseFunded(last) :
           /\ last.wallets[i].address = out[1].address
           /\ last.wallets[i].balances.mainnet = last.numbers[1]


\* C15 (as stated): when no wallet of the list has the required amount on
\* mainnet and a wallet has at least required + fee on Base, the path chosen
\* is B and never C.
C15_BaseFundedGetsPathB ==
    (RecommendReturned /\ MainnetFunded(last) = {} /\ BaseFunded(last) # {})
        => out[1].path = "B"

\* C15 (amended): when no externally-owned wallet of the list has the
\* required amount on mainnet and an externally-owned wallet has at least
\* required + fee on Base, the path chosen is B and never C; the wallet
\* returned is the first such wallet and the estimated cost is
\* required + fee.
C15_BaseFundedOwnedGetsPathB ==
    ( /\ RecommendReturned
      /\ MainnetFunded(last) \cap Owned(last) = {}
      /\ BaseFunded(last) \cap Owned(last) # {} ) =>
        /\ out[1].path = "B"
        /\ out[1].address
               = last.wallets[Min(BaseFunded(last) \cap Owned(last))].address
        /\ out[1].estimatedCost = last.numbers[1] + last.numbers[2]

\* C15 witness: path B was chosen for an externally-owned wallet holding
\* exactly required + fee on Base, beside a smart-contract wallet whose Base
\* balance would allow path C
C15_PathBBesideFundedSmartAccount ==
    /\ RecommendReturned
    /\ out[1].path = "B"
    /\ last.numbers[2] > 0
    /\ \E i \in BaseFunded(last) \cap Owned(last) :
           /\ last.wallets[i].address = out[1].address
           /\ last.wallets[i].balances.base
                  = last.numbers[1] + last.numbers[2]
    /\ BaseFunded(last) \ Owned(last) # {}


\* the capable-wallet filter of /bridge_register has returned; the wallet
\* list is in last, the wallets offered for selection in out
CapableReturned == last.op = "capableWallets" /\ last.case = "return"

\* the addresses of the externally-owned wallets of a call
OwnedAddresses(l) == {l.wallets[i].address : i \in Owned(l)}

\* C16: the wallet returned by recommendWallet, and every wallet offered for
\* selection by /bridge_register, is an externally-owned wallet of the list;
\* path C is returned exactly when no externally-owned wallet has the
\* required amount on mainnet or required + fee on Base, some smart-contract
\* wallet has at least required + fee on Base, and an externally-owned
\* wallet exists.
C16_SignerOwnedAndPathCExact ==
    /\ RecommendReturned =>
          /\ out[1] # NoRecommendation =>
                 out[1].address \in OwnedAddresses(last)
          /\ out[1].path = "C" <=>
                 /\ MainnetFunded(last) \cap Owned(last) = {}
                 /\ BaseFunded(last) \cap Owned(last) = {}
                 /\ BaseFunded(last) \ Owned(last) # {}
                 /\ Owned(last) # {}
    /\ CapableReturned =>
          \A i \in 1..Len(out) :
              out[i].isEOA /\ out[i].address \in OwnedAddresses(last)

\* C16 witness: path C was returned with the first externally-owned wallet
\* of a list that begins with a funded smart-contract wallet
C16_PathCReturnsOwnedWallet ==
    /\ RecommendReturned
    /\ out[1].path = "C"
    /\ 1 \in BaseFunded(last) \ Owned(last)
    /\ out[1].address = last.wallets[Min(Owned(last))].address


\* no wallet of a call satisfies a path: no externally-owned wallet is funded
\* on mainnet or on Base, and no funded smart-contract wallet comes with an
\* externally-owned wallet
NoViablePath(l) ==
    /\ MainnetFunded(l) \cap Owned(l) = {}
    /\ BaseFunded(l) \cap Owned(l) = {}
    /\ (BaseFunded(l) \ Owned(l) = {} \/ Owned(l) = {})

\* the analysis a /bridge_register run asks for: its wallets with the
\* required amount of its registration cost and the fee of its quote
FundingCall(l) ==
    [l EXCEPT !.numbers =
        <<CalculateRequiredMainnetETH(l.numbers[1], GAS_BUFFER_PERCENTAGE),
          l.quote[1].total>>]

\* a /bridge_register run that got as far as the funding analysis, or ended
\* before it for want of an externally-owned wallet
FundingAnalysed(l) ==
    /\ l.op = "bridge_register"
    /\ l.quote # <<>>
    /\ (l.quote[1].ok \/ Owned(l) = {})

\* C17: when no wallet satisfies any path, an empty list and a list without
\* externally-owned wallet included, recommendWallet returns the no-funds
\* result; a /bridge_register run over such wallets stores no selection
\* (and no other record), sends no prompt or request, and ends with the
\* message that reports the lack of a usable wallet.
C17_NoFundsReported ==
    [][ /\ (RecommendReturned' /\ NoViablePath(last')) =>
               out' = <<NoRecommendation>>
        /\ (FundingAnalysed(last') /\ NoViablePath(FundingCall(last'))) =>
               /\ stores' = stores
               /\ InteractionRequests(out') = {}
               /\ out' # <<>>
               /\ out'[Len(out')].text \in
                      {"no_linked_wallets", "no_eoa_wallets",
                       "no_capable_wallets"}
      ]_vars

\* C17 witness: /bridge_register has reported that the one linked wallet,
\* externally owned and without funds, cannot pay, and no selection is
\* stored
C17_NoCapableWalletReported ==
    /\ FundingAnalysed(last)
    /\ Owned(last) # {}
    /\ NoViablePath(FundingCall(last))
    /\ out[Len(out)] = Message(last.channelId, "no_capable_wallets")
    /\ pendingWalletSelections = EmptyMap


----------------------------------------------------------------------------
(* Properties of the amounts *)

\* calculateRequiredMainnetETH has returned; registration cost and buffer
\* percentage are in last, the result in out
RequiredReturned ==
    last.op = "calculateRequiredMainnetETH" /\ last.case = "return"

\* C18: calculateRequiredMainnetETH returns total + total * percent / 100,
\* the division rounding down, where total is the registration cost plus the
\* gas reserve; the result grows strictly with the registration cost and
\* with the gas reserve, which enter it through their sum only; for a cost
\* of 0.01 ETH, the gas reserve of 0.01 ETH and a buffer of 10% it is
\* exactly 0.022 ETH.
C18_RequiredAmount ==
    RequiredReturned =>
        LET cost == last.numbers[1]
            percent == last.numbers[2]
            total == cost + ESTIMATED_GAS
        IN  /\ out = <<total + (total * percent) \div 100>>
            /\ CalculateRequiredMainnetETH(cost + 1, percent) > out[1]
            /\ cost > 0 =>
                   CalculateRequiredMainnetETH(cost - 1, percent) < out[1]
            /\ (cost = 10 /\ ESTIMATED_GAS = 10 /\ percent = 10) =>
                   out = <<22>>

\* C18 witness: the required amount of the scenario (cost 0.01 ETH, buffer
\* 10%) has been computed
C18_ScenarioAmount ==
    /\ RequiredReturned
    /\ last.numbers = <<10, GAS_BUFFER_PERCENTAGE>>
    /\ out = <<22>>


\* the bridge deposit requests among what a run sent
BridgeRequests(o) ==
    {i \in 1..Len(o) :
        o[i].type = "transaction" /\ o[i].data.fn = "depositV3"}

\* the transaction requests among what a run sent
TransactionRequests(o) == {i \in 1..Len(o) : o[i].type = "transaction"}

\* C19: a wallet selection that takes Path B issues a single transaction
\* request, the bridge deposit; its output amount is required - fee when
\* that is positive and 0 otherwise (0.021 ETH for required 0.022 ETH and
\* fee 0.001 ETH), its amount is the required amount, and the selected
\* wallet is its depositor, its recipient and its pinned signer.
C19_BridgeInstruction ==
    [][(SelectionResponseStep /\ BridgeRequests(out') # {}) =>
          /\ last'.requestId \in DOMAIN pendingWalletSelections
          /\ LET selection == pendingWalletSelections[last'.requestId]
                 required == selection.requiredMainnetAmount
                 fee == selection.bridgeFee
                 wallet == SelectedAddress(last'.components)
             IN  /\ wallet # NoAddress
                 /\ Cardinality(TransactionRequests(out')) = 1
                 /\ \A i \in BridgeRequests(out') :
                        /\ out'[i].data.outputAmount
                               = (IF required - fee > 0 THEN required - fee
                                  ELSE 0)
                        /\ (required = 22 /\ fee = 1) =>
                               out'[i].data.outputAmount = 21
                        /\ out'[i].data.amount = required
                        /\ out'[i].data.owner = wallet
                        /\ out'[i].data.recipient = wallet
                        /\ out'[i].signerWallet = wallet
                        /\ out'[i].chainId = BASE_CHAIN]_vars

\* C19 witness: a bridge deposit has been requested for a fee above the
\* required amount, with output amount 0
C19_FeeAboveRequired ==
    /\ last.op = "response"
    /\ last.case = "form"
    /\ \E i \in BridgeRequests(out) :
           /\ out[i].data.outputAmount = 0
           /\ out[i].data.amount = 22
           /\ out[i].signerWallet = SelectedAddress(last.components)


----------------------------------------------------------------------------
(* Properties of the key derivation *)

\* the two substitutions have been applied to the commit key in last
KeysDerived == last.op = "deriveKeys" /\ last.case = "return"

\* the part of a key after a prefix
AfterPrefix(id, p) == SubSeq(id, Len(p) + 1, Len(id))

\* C20: for every commit key (commit-... or testcommit-...), the reveal id
\* derived by substituting the prefix is the reveal prefix followed by the
\* same channel, user and label, and the substitution reversed by the reveal
\* confirmation gives back exactly the commit key, also when the label
\* contains 'commit-' or 'register-'.
C20_KeyRoundTrip ==
    KeysDerived =>
        /\ out[1].commitRequestId = last.requestId
        /\ IF StartsWith(last.requestId, PTestCommit)
           THEN /\ StartsWith(out[1].registerRequestId, PTestRegister)
                /\ AfterPrefix(out[1].registerRequestId, PTestRegister)
                       = AfterPrefix(last.requestId, PTestCommit)
           ELSE /\ StartsWith(out[1].registerRequestId, PRegister)
                /\ AfterPrefix(out[1].registerRequestId, PRegister)
                       = AfterPrefix(last.requestId, PCommit)

\* C20 witness: the round trip of a commit key whose label contains both
\* 'register-' and 'commit-'
C20_RoundTripOfPrefixedLabel ==
    /\ KeysDerived
    /\ last.requestId
           = CommitmentId(PCommit, <<"1">>, <<"a">>, PRegister \o PCommit)
    /\ out[1].commitRequestId = last.requestId


----------------------------------------------------------------------------
(* Properties of the start of a saga *)

\* the text of the last message of a run
LastText(o) ==
    IF o # <<>> /\ o[Len(o)].type = "message" THEN o[Len(o)].text ELSE ""

\* a command run whose arguments fail validation: no argument, a duration
\* that is no number from 1 to 10, a label of fewer than three characters
InvalidArguments(l) ==
    /\ l.op \in {"register", "bridge_register"}
    /\ \/ l.args = <<>>
       \/ Len(l.args[1]) < 3
       \/ /\ Len(l.args) > 1
          /\ l.args[2] # <<>>
          /\ \/ ParseInt(l.args[2]).nan
             \/ ParseInt(l.args[2]).value \notin 1..10

\* a /bridge_register run of a user with no linked wallet or with no
\* externally-owned one
NoUsableWallet(l) ==
    /\ l.op = "bridge_register"
    /\ \A i \in 1..Len(l.wallets) : ~l.wallets[i].isEOA

\* what a run says when the name is taken or no wallet holds the funds
PreconditionTexts == {"not_available", "no_capable_wallets"}

RejectedStep ==
    \/ InvalidArguments(last')
    \/ NoUsableWallet(last')
    \/ /\ last'.op \in {"register", "bridge_register"}
       /\ LastText(out') \in PreconditionTexts

\* C21: a /register or /bridge_register run that is rejected by validation
\* (no argument, duration outside 1..10, label too short) or by a
\* precondition (name unavailable, no linked wallet, no externally-owned
\* wallet, no wallet with sufficient funds) stores no record, changes none,
\* schedules no timer and sends no form or transaction request; it ends
\* with a message to the user.
C21_RejectedRequestCreatesNothing ==
    [][RejectedStep =>
          /\ stores' = stores
          /\ timers' = timers
          /\ InteractionRequests(out') = {}
          /\ LastText(out') # ""]_vars

\* C21 witness: a /bridge_register run was rejected for lack of funds while
\* a commitment of an earlier /register is pending
C21_RejectedBesidePending ==
    /\ last.op = "bridge_register"
    /\ LastText(out) = "no_capable_wallets"
    /\ pendingCommitments # EmptyMap

\* what a run says when a call made while a saga is started has thrown
FailureTexts == {"error_initiating", "error_processing_selection"}

\* every record of the store after the run was there, unchanged, before it
NoRecordAdded(old, new) ==
    \A k \in DOMAIN new : k \in DOMAIN old /\ new[k] = old[k]

\* C22: a /register, /bridge_register or wallet-selection run in which a
\* service call threw ends with a failure message to the user and leaves no
\* record of the saga it was starting in any correlation store: every
\* record stored after the run was stored, unchanged, before it.
C22_FailedStartLeavesNoRecord ==
    [][LastText(out') \in FailureTexts =>
          /\ NoRecordAdded(pendingCommitments, pendingCommitments')
          /\ NoRecordAdded(pendingBridges, pendingBridges')
          /\ NoRecordAdded(pendingWalletSelections,
                           pendingWalletSelections')]_vars

----------------------------------------------------------------------------
(* Properties of the direct path *)

\* the owner named in the commitment the fired timer was scheduled for
TimerOwner(l) == l.timer[1].closure.commitment.owner

\* the wallets a user may choose in the selection form
SelectableWallets == {"0xE1", "0xE2"}

\* C23: in the saga started by a wallet selection with sufficient mainnet
\* funds, the chosen wallet is the owner in the commitment record and the
\* pinned signer of the commit request, and it is the pinned signer of the
\* reveal request the delay timer sends for that commitment.
C23_ChosenWalletSignsSaga ==
    [][\A i \in TransactionRequests(out') :
          LET r == out'[i]
          IN  /\ (/\ last'.op = "response"
                  /\ last'.case = "form"
                  /\ StartsWith(r.id, PCommit))
                    => /\ r.signerWallet = SelectedAddress(last'.components)
                       /\ pendingCommitments'[r.id].owner =
                              SelectedAddress(last'.components)
              /\ (/\ last'.op = "timer"
                  /\ TimerOwner(last') \in SelectableWallets)
                    => r.signerWallet = TimerOwner(last')]_vars

----------------------------------------------------------------------------
(* Progress of a confirmed commitment *)

\* a commit confirmation carrying a hash for a commitment that is pending
ConfirmsPendingCommit ==
    /\ last'.op = "response"
    /\ last'.case = "transaction"
    /\ last'.txHash # NoTxHash
    /\ StartsWith(last'.requestId, PCommit)
    /\ last'.requestId \in DOMAIN pendingCommitments

\* the run of the callback t: the reveal request is issued, or the failure
\* is reported and the record deleted
ContinuationOutcome(t, l, o, commitments) ==
    /\ l.op = "timer"
    /\ l.timer = <<t>>
    /\ \/ \E i \in TransactionRequests(o) :
              o[i].id = RegisterRequestId(t.closure.requestId, t.closure.test)
       \/ /\ LastText(o) = "error_preparing_registration"
          /\ t.closure.requestId \notin DOMAIN commitments

----------------------------------------------------------------------------
(* Properties of the subdomain assignment *)

\* the keys whose assignment record the step stored or changed
AssignmentsStored ==
    {k \in DOMAIN pendingSubdomainAssignments' :
        \/ k \notin DOMAIN pendingSubdomainAssignments
        \/ pendingSubdomainAssignments'[k] # pendingSubdomainAssignments[k]}

\* wallet a is an externally-owned wallet linked by the requester of the
\* run l, and the registrar names it as the owner of the parent domain
VerifiedOwner(a, l) ==
    \E i \in 1..Len(l.wallets) :
        /\ l.wallets[i].address = a
        /\ l.wallets[i].isEOA
        /\ l.currentOwner # NoAddress
        /\ ToLowerCase(a) = ToLowerCase(l.currentOwner)

\* C25: an assignment record is stored only by an /assign_subdomain run in
\* which the registrar named one of the requester's linked externally-owned
\* wallets as owner of the parent domain; that wallet is the record's
\* ownerWallet and the pinned signer of the run's transaction request. A
\* response to that request, with a hash or without, deletes the record,
\* and nothing else deletes or changes one.
C25_AssignmentVerifiedAndCleared ==
    [][/\ \A k \in AssignmentsStored :
             LET r == pendingSubdomainAssignments'[k]
             IN  /\ last'.op = "assign_subdomain"
                 /\ VerifiedOwner(r.ownerWallet, last')
                 /\ \A i \in TransactionRequests(out') :
                        /\ out'[i].id = k
                        /\ out'[i].signerWallet = r.ownerWallet
                 /\ LastText(out') = "transaction_sent"
                        => TransactionRequests(out') # {}
       /\ (/\ last'.op = "response"
           /\ last'.case = "transaction"
           /\ StartsWith(last'.requestId, PSubdomain))
             => last'.requestId \notin DOMAIN pendingSubdomainAssignments'
       /\ \A k \in DOMAIN pendingSubdomainAssignments
                    \ DOMAIN pendingSubdomainAssignments' :
             /\ last'.op = "response"
             /\ last'.requestId = k]_vars

\* C25 witness: the transaction of an assignment was confirmed and its
\* record, stored for the verified owner wallet, is gone
C25_AssignmentCompleted ==
    /\ last.op = "response"
    /\ LastText(out) = "subdomain_complete"
    /\ last.requestId \notin DOMAIN pendingSubdomainAssignments

----------------------------------------------------------------------------
(* Properties of a repeated commit confirmation *)

\* C26: the commit transaction hash of a commitment record is attached by
\* the first successful commit confirmation and is never overwritten: once
\* a record carries a hash, the record stored under its key keeps that hash
\* for as long as it is the same commitment, whatever confirmations follow.
C26_CommitHashWrittenOnce ==
    [][\A k \in DOMAIN pendingCommitments \cap DOMAIN pendingCommitments' :
          (/\ pendingCommitments[k].commitTxHash # NoTxHash
           /\ pendingCommitments'[k].secret = pendingCommitments[k].secret)
             => pendingCommitments'[k].commitTxHash =
                    pendingCommitments[k].commitTxHash]_vars

\* a commit confirmation carrying a hash for a commitment whose record
\* already carries one
DuplicateConfirmation ==
    /\ ConfirmsPendingCommit
    /\ pendingCommitments[last'.requestId].commitTxHash # NoTxHash

\* C30: a commitment gets at most one delay timer and so at most one reveal
\* request: a successful commit confirmation for a key whose record was
\* confirmed before schedules no further continuation.
C30_OneContinuationPerCommitment ==
    [][DuplicateConfirmation => timers' = timers]_vars

----------------------------------------------------------------------------
(* Properties of the stored selection *)

\* wallet w has a path for the amounts of selection sel on the balances
\* stored with it: Path A with the required amount on mainnet, or Path B
\* with the required amount and the fee on Base
HasPath(w, sel) ==
    LET path == DeterminePathForWallet(w, sel.requiredMainnetAmount,
                                       sel.bridgeFee)
    IN  /\ path # NoPath
        /\ path = "A" => w.balances.mainnet >= sel.requiredMainnetAmount
        /\ path = "B" =>
               w.balances.base >= sel.requiredMainnetAmount + sel.bridgeFee

\* C27: every selection stored by /bridge_register has at least one
\* candidate, and every candidate is an externally-owned wallet with a
\* recommended path for the stored required amount and fee on the balances
\* stored with it.
C27_StoredCandidatesCapable ==
    \A k \in DOMAIN pendingWalletSelections :
        LET sel == pendingWalletSelections[k]
        IN  /\ sel.allWallets # <<>>
            /\ \A i \in 1..Len(sel.allWallets) :
                   /\ sel.allWallets[i].isEOA
                   /\ HasPath(sel.allWallets[i], sel)

\* C27 witness: a selection is stored that leaves out one of the linked
\* wallets of the run
C27_SelectionLeavesWalletOut ==
    /\ last.op = "bridge_register"
    /\ \E k \in DOMAIN pendingWalletSelections :
          /\ pendingWalletSelections[k].timestamp = DateNow
          /\ Len(pendingWalletSelections[k].allWallets) < Len(last.wallets)

\* the selection a form response is for, when it is pending and the
\* button pressed names one of its wallets
ChosenFrom(l, selections) ==
    IF /\ l.op = "response"
       /\ l.case = "form"
       /\ StartsWith(l.requestId, PWalletSelect)
       /\ l.requestId \in DOMAIN selections
       /\ l.numbers # <<>>
       /\ FindWallet(selections[l.requestId].allWallets,
                     SelectedAddress(l.components)) # {}
    THEN {selections[l.requestId]}
    ELSE {}

\* the balances <<mainnet, Base>> satisfy no path for the selection
NoPathNow(balances, sel) ==
    /\ balances[1] < sel.requiredMainnetAmount
    /\ balances[2] < sel.requiredMainnetAmount + sel.bridgeFee

\* C28: when the wallet chosen in a selection response holds, at the time
\* the response is handled, neither the required amount on mainnet nor the
\* required amount and the fee on Base, the run stores no commitment and no
\* bridge record and sends no transaction request.
C28_EligibilityRecheckedAtResponse ==
    [][\A sel \in ChosenFrom(last', pendingWalletSelections) :
          NoPathNow(last'.numbers, sel) =>
             /\ pendingCommitments' = pendingCommitments
             /\ pendingBridges' = pendingBridges
             /\ TransactionRequests(out') = {}]_vars

----------------------------------------------------------------------------
(* Properties of the bridge record *)

\* the order pending -> submitted -> {filled | expired}
StatusRank(status) ==
    IF status = "pending" THEN 0 ELSE IF status = "submitted" THEN 1 ELSE 2

\* C29: every bridge record a step leaves stored has a status among
\* pending, submitted, filled and expired, an amount above zero and mainnet
\* as the chain bridged to, and a record that was stored before the step
\* has not moved backwards in pending -> submitted -> {filled | expired}.
C29_BridgeRecordWellFormed ==
    [][\A k \in DOMAIN pendingBridges' :
          LET b == pendingBridges'[k]
          IN  /\ b.status \in {"pending", "submitted", "filled", "expired"}
              /\ b.amount > 0
              /\ b.toChain = MAINNET_CHAIN
              /\ b.toChain # b.fromChain
              /\ k \in DOMAIN pendingBridges =>
                     StatusRank(b.status) >=
                         StatusRank(pendingBridges[k].status)]_vars

\* C29 witness: a response carrying a hash was handled for the request of
\* a bridge record, which is still stored
C29_BridgeResponseHandled ==
    /\ last.op = "response"
    /\ last.case = "transaction"
    /\ last.txHash # NoTxHash
    /\ last.requestId \in DOMAIN pendingBridges

----------------------------------------------------------------------------
(* Properties of the continuation and the record it was scheduled for *)

\* the record the fired timer l was scheduled for is still the one stored
\* under its commit key
StillStored(l, commitments) ==
    LET c == l.timer[1].closure
    IN  /\ c.requestId \in DOMAIN commitments
        /\ commitments[c.requestId].secret = c.commitment.secret

\* C31: the continuation issues a reveal request only if the commitment it
\* was scheduled for is still stored under its commit key when the timer
\* fires: not after the record was deleted by a failed commit, and not
\* after a newer request replaced it.
C31_RevealOnlyForStoredRecord ==
    [][(last'.op = "timer" /\ TransactionRequests(out') # {})
          => StillStored(last', pendingCommitments)]_vars

----------------------------------------------------------------------------
(* Exclusive dispatch *)

\* the timers the step scheduled, the commitment keys it removed
TimersScheduled == DOMAIN timers' \ DOMAIN timers
CommitmentsDeleted == DOMAIN pendingCommitments \ DOMAIN pendingCommitments'

\* a form response does nothing a transaction branch does: it schedules no
\* timer, deletes no commitment, attaches no hash, touches no assignment
FormHandledByFormBranch ==
    /\ timers' = timers
    /\ pendingSubdomainAssignments' = pendingSubdomainAssignments
    /\ CommitmentsDeleted = {}
    /\ \A k \in DOMAIN pendingCommitments :
          \/ pendingCommitments'[k] = pendingCommitments[k]
          \/ pendingCommitments'[k].commitTxHash = NoTxHash

\* a transaction response does nothing a form branch does: the selections
\* and bridge records stay, no request is sent
TransactionHandledByTransactionBranch ==
    /\ pendingWalletSelections' = pendingWalletSelections
    /\ pendingTestSelections' = pendingTestSelections
    /\ pendingBridges' = pendingBridges
    /\ InteractionRequests(out') = {}

\* one branch at most acts on the event: the test branch on a test key, the
\* mainnet branch on a mainnet key, each on the record of its own key
OneBranchActs(id) ==
    /\ \A t, u \in TimersScheduled : t = u
    /\ \A k, j \in CommitmentsDeleted : k = j
    /\ \A t \in TimersScheduled :
          /\ timers'[t].closure.requestId = id
          /\ timers'[t].closure.test = StartsWith(id, PTestCommit)
          /\ timers'[t].closure.test # StartsWith(id, PCommit)
    /\ \A k \in CommitmentsDeleted :
          \/ k = id
          \/ StartsWith(id, PTestRegister) /\ StartsWith(k, PTestCommit)
          \/ StartsWith(id, PRegister) /\ StartsWith(k, PCommit)

\* C32: every response is handled by at most one branch. A form response is
\* never handled by the transaction handler and a transaction response
\* never by the form handler; a testcommit- key is handled by the test
\* commit branch and never by the commit- branch, a test_register- key by
\* the test reveal branch and never by the register- branch.
C32_DispatchExclusive ==
    [][last'.op = "response" =>
          /\ last'.case = "form" => FormHandledByFormBranch
          /\ last'.case = "transaction" =>
                 TransactionHandledByTransactionBranch
          /\ OneBranchActs(last'.requestId)]_vars

\* C32 witness: a form response carrying the key of a stored commitment has
\* been handled, and a test commitment is pending beside it
C32_FormEventWithCommitKey ==
    /\ last.op = "response"
    /\ last.case = "form"
    /\ last.requestId \in DOMAIN pendingCommitments
    /\ \E k \in DOMAIN pendingCommitments : StartsWith(k, PTestCommit)

----------------------------------------------------------------------------
(* Properties of an accepted selection *)

\* the step handled a wallet-selection response and removed its selection
SelectionAccepted ==
    /\ last'.op = "response"
    /\ last'.case = "form"
    /\ last'.requestId \in DOMAIN pendingWalletSelections
    /\ last'.requestId \notin DOMAIN pendingWalletSelections'

\* the saga key of prefix p for the selection sel answered by event l
SagaKey(p, l, sel) == p \o l.channelId \o Dash \o sel.userId \o Dash \o sel.label

\* the run stored the record of one saga for the selection's user and
\* label, in store' and not in the other store, and sent its one request
SagaStarted(key, sel, store, otherUnchanged) ==
    /\ key \in DOMAIN store
    /\ store[key].userId = sel.userId
    /\ store[key].label = sel.label
    /\ otherUnchanged
    /\ \A i \in TransactionRequests(out') : out'[i].id = key
    /\ \A i, j \in TransactionRequests(out') : i = j
    /\ TransactionRequests(out') # {}

----------------------------------------------------------------------------
(* What the bridge delivers *)

\* C34: every Path B bridge request delivers at least the required mainnet
\* amount to the recipient: its output amount is not below the amount the
\* bridge record stores as required, so that the filled bridge leaves the
\* wallet with the funds of Path A.
C34_BridgeDeliversRequired ==
    [][last'.op = "response" =>
          \A i \in BridgeRequests(out') :
              /\ out'[i].id \in DOMAIN pendingBridges'
              /\ out'[i].data.outputAmount >=
                     pendingBridges'[out'[i].id].amount]_vars

----------------------------------------------------------------------------
(* Whom a confirmation is answered to *)

\* the commitment a transaction response is a confirmation for, if stored
ConfirmedRecord(l, commitments) ==
    IF /\ l.op = "response"
       /\ l.case = "transaction"
       /\ l.requestId \in DOMAIN commitments
    THEN {commitments[l.requestId]}
    ELSE {}

\* C35: whatever is sent while a confirmation for a stored commitment is
\* handled goes to the channel recorded in the commitment, and to its user
\* if it is a request; a confirmation delivered with another user or
\* channel than the recorded ones changes no record and schedules no
\* continuation.
C35_ConfirmationBoundToInitiator ==
    [][\A r \in ConfirmedRecord(last', pendingCommitments) :
          /\ \A i \in 1..Len(out') :
                 /\ out'[i].channelId = r.channelId
                 /\ out'[i].type = "transaction" =>
                        out'[i].recipient = r.userId
          /\ (last'.userId # r.userId \/ last'.channelId # r.channelId)
                 => /\ stores' = stores
                    /\ timers' = timers]_vars

----------------------------------------------------------------------------
(* Frame of a rejected selection *)

\* the selection pending under the id of the form response l, if any
PendingFor(l) ==
    IF l.op # "response" \/ l.case # "form" THEN {}
    ELSE IF /\ StartsWith(l.requestId, PTestWalletPick)
            /\ l.requestId \in DOMAIN pendingTestSelections
    THEN {pendingTestSelections[l.requestId]}
    ELSE IF /\ StartsWith(l.requestId, PWalletSelect)
            /\ ~StartsWith(l.requestId, PTestWalletPick)
            /\ l.requestId \in DOMAIN pendingWalletSelections
    THEN {pendingWalletSelections[l.requestId]}
    ELSE {}

\* the response carries no button, or its button names no stored candidate
NamesNoCandidate(l, sel) ==
    \/ \A i \in 1..Len(l.components) : l.components[i].case # "button"
    \/ \A j \in 1..Len(sel.allWallets) :
          sel.allWallets[j].address # SelectedAddress(l.components)

RejectionTexts ==
    {"no_wallet_selected", "invalid_wallet_selection", "insufficient_funds"}

\* C36: a response to a pending selection that carries no button, names a
\* wallet that is not among the stored candidates, or is answered with 'no
\* longer sufficient funds', leaves the selection stored as it was, stores
\* no commitment and no bridge record, schedules nothing and sends no
\* request; it ends with the message that tells the user why.
C36_RejectedSelectionChangesNothing ==
    [][\A sel \in PendingFor(last') :
          (NamesNoCandidate(last', sel)
             \/ LastText(out') \in RejectionTexts)
            => /\ stores' = stores
               /\ timers' = timers
               /\ InteractionRequests(out') = {}
               /\ LastText(out') \in RejectionTexts]_vars

\* C36 witness: a button naming a wallet that is linked but was not offered
\* has been rejected, and the selection is still pending
C36_UnofferedWalletRejected ==
    /\ last.op = "response"
    /\ LastText(out) = "invalid_wallet_selection"
    /\ last.requestId \in DOMAIN pendingWalletSelections
    /\ SelectedAddress(last.components) # NoAddress

----------------------------------------------------------------------------
(* Properties of the commitment store                                       *)

\* the key the record's own fields spell, under a prefix
KeyOfRecord(prefix, r) ==
    prefix \o r.channelId \o Dash \o r.userId \o Dash \o r.label

\* the parameters the record keeps
ParamsOfRecord(r) ==
    [label |-> r.label, owner |-> r.owner, duration |-> r.duration,
     secret |-> r.secret]

\* C37: every record of the commitment store is stored under "commit-" or
\* "testcommit-" followed by its own channel id, user id and label, its
\* commitment is the one made from its label, owner, duration and secret
\* together, and two records under different keys differ in prefix, channel,
\* user or label.
C37_CommitmentConsistentWithKey ==
    /\ \A k \in DOMAIN pendingCommitments :
          LET r == pendingCommitments[k]
          IN  /\ k \in {KeyOfRecord(PCommit, r), KeyOfRecord(PTestCommit, r)}
              /\ r.commitment = MakeCommitment(ParamsOfRecord(r))
              /\ r.domain = r.label \o DotEth
    /\ \A k1, k2 \in DOMAIN pendingCommitments :
          LET r1 == pendingCommitments[k1]
              r2 == pendingCommitments[k2]
          IN  (/\ <<r1.channelId, r1.userId, r1.label>>
                    = <<r2.channelId, r2.userId, r2.label>>
               /\ (k1 = KeyOfRecord(PCommit, r1))
                    = (k2 = KeyOfRecord(PCommit, r2)))
              => k1 = k2

\* C37 witness: two users hold commitments for the same name in the same
\* channel, one of them made by the direct path with a wallet as owner
C37_TwoUsersSameName ==
    \E k1, k2 \in DOMAIN pendingCommitments :
        LET r1 == pendingCommitments[k1]
            r2 == pendingCommitments[k2]
        IN  /\ r1.userId # r2.userId
            /\ r1.channelId = r2.channelId
            /\ r1.label = r2.label
            /\ r1.owner = "0xE2"
            /\ r2.owner = SmartAccountOf(r2.userId)

----------------------------------------------------------------------------
(* Properties of pollBridgeStatus                                           *)

PollOps == {"pollBridgeStatus", "poll"}

\* the callback has been invoked at most once since the call was made
CallbackAtMostOnce == Len(out) <= 1

\* a run of poll (a step that is not the clock's) that has seen "filled" or
\* "expired", or that finds maxWaitMs elapsed, leaves no poll scheduled
NoPollAfterFinal ==
    (/\ last'.op \in PollOps
     /\ now' = now
     /\ \/ last'.case \in {"filled", "expired"}
        \/ DateNow - last'.numbers[1] >= last'.numbers[2])
    => timers' = EmptyMap

\* whenever a poll is scheduled, eventually none is
PollingStops == (timers # EmptyMap) ~> (timers = EmptyMap)

\* C38: pollBridgeStatus invokes its callback at most once per call,
\* schedules no further poll once it has seen the status filled or expired
\* or once maxWaitMs has elapsed, and always stops polling.
C38_CallbackOnceAndPollingStops ==
    /\ []CallbackAtMostOnce
    /\ [][NoPollAfterFinal]_vars
    /\ PollingStops

====
